---- MODULE Spec2Model ----
(***************************************************************************)
(* rusftp: the SFTP client's request multiplexer (client/receiver.rs), the *)
(* request futures (client/request.rs) and the stopping of client handles  *)
(* (client/stop.rs).                                                       *)
(*                                                                         *)
(* The byte stream is modelled byte by byte: the server's frames reach     *)
(* Receiver::poll_next in reads of any size, and the requests are written  *)
(* as encoded frames.                                                      *)
(***************************************************************************)
EXTENDS Integers, Sequences, FiniteSets, TLC

\* ------------------------------------------------------------------------
\* Bounds of the model
\* ------------------------------------------------------------------------
\* Number of calls of request_with in a behaviour.
MaxReq == 2
\* Number of frames the server writes in a behaviour.
MaxFrames == 2
\* Number of read errors the stream reports in a behaviour.
MaxErr == 1
\* Number of clones made of the first client handle.
MaxClones == 1
\* Number of events of the channel that are not data during the handshake.
MaxEvents == 1
\* Number of requests SftpClient::readdir makes in a behaviour.
MaxOps == 5
\* Number of File cursors: the first one and its clones.
MaxFiles == 2
\* Number of requests the File cursors make in a behaviour.
MaxFileOps == 2
\* Requests that a Dir cursor makes in one behaviour (ReadDir and Close).
MaxDirOps == 4
\* Results that the entry stream of a Dir returns in one behaviour.
MaxYield == 6
\* Longest prefix of an encoding that is handed to the decoder.
MaxCut == 36
\* Largest offset that start_seek moves a File cursor to by SeekFrom::Current.
MaxOffset == 2
\* u64::MAX, scaled down to the integers of the model checker.
U64Max == 1000000000

\* the File cursors of the model
FileIds == 1..MaxFiles

\* ------------------------------------------------------------------------
\* Program constants
\* ------------------------------------------------------------------------
\* std::mem::size_of::<u32>(): the length prefix of a frame
U32Len == 4
\* the read buffer is grown to at least this length before a read
MinRead == 1024
\* StatusCode::ConnectionLost
ConnectionLost == 7
\* StatusCode::Failure
Failure == 4
\* StatusCode::BadMessage
BadMessage == 5
\* message type of the requests of the model (SSH_FXP_STAT)
ReqType == 17
\* message type of the replies of the model (SSH_FXP_ATTRS)
ReplyType == 105
\* a message type outside the catalogue
UnknownType == 255
InitType == 1
VersionType == 2
ProtocolVersion == 3
\* StatusCode::NoSuchFile
NoSuchFile == 2
\* StatusCode::PermissionDenied
PermissionDenied == 3
\* StatusCode::OpUnsupported
OpUnsupported == 8
\* a Read or a Write of the File cursor carries at most 32K
MaxChunk == 32768
\* buf.remaining() of poll_read and buf.len() of poll_write
BufSizes == {1, 2, 49152}

Requests == 1..MaxReq
Handles == 1..(MaxClones + 1)
\* IDs a server frame may carry: never assigned (0), assigned, completed
ServerIds == 0..MaxReq
\* response_size = None
None == -1

Min(a, b) == IF a < b THEN a ELSE b
Max(a, b) == IF a > b THEN a ELSE b

\* ------------------------------------------------------------------------
\* Wire codec (big-endian u32, frames)
\* ------------------------------------------------------------------------
U32(n) == << (n \div 16777216) % 256, (n \div 65536) % 256, (n \div 256) % 256, n % 256 >>

GetU32(s) == s[1] * 16777216 + s[2] * 65536 + s[3] * 256 + s[4]

Take(s, n) == SubSeq(s, 1, n)

Drop(s, n) == SubSeq(s, n + 1, Len(s))

\* Message::encode(id): len:u32 || type:u8 || id:u32 || payload
Encode(type, id, payload) == U32(1 + U32Len + Len(payload)) \o <<type>> \o U32(id) \o payload

\* Message::decode_raw on the bytes of one frame (without the length prefix):
\* Ok((id, message)), or an error that carries the id when it can be read.
DecodeRaw(bytes) ==
    IF Len(bytes) < 1 + U32Len
    THEN [ok |-> FALSE, hasId |-> FALSE, id |-> 0, type |-> 0, body |-> <<>>]
    ELSE IF bytes[1] # ReplyType
    THEN [ok |-> FALSE, hasId |-> TRUE, id |-> GetU32(Drop(bytes, 1)), type |-> bytes[1], body |-> <<>>]
    ELSE [ok |-> TRUE, hasId |-> TRUE, id |-> GetU32(Drop(bytes, 1)), type |-> bytes[1],
          body |-> Drop(bytes, 1 + U32Len)]

\* Message::Init(Init { version, extensions: empty }).encode(0):
\* len:u32 || type:u8 || version:u32
EncodeInit(version) == U32(1 + U32Len) \o <<InitType>> \o U32(version)

\* the frame of a Version message without extensions
EncodeVersion(version) == U32(1 + U32Len) \o <<VersionType>> \o U32(version)

\* Message::decode on the data of one channel message: the frame with its
\* length prefix; kind is "Version", "Other" (another message) or "Error"
Decode(data) ==
    IF Len(data) < U32Len + 1 + U32Len \/ GetU32(data) # Len(data) - U32Len
    THEN [kind |-> "Error", version |-> 0]
    ELSE IF data[U32Len + 1] = VersionType
    THEN [kind |-> "Version", version |-> GetU32(Drop(data, U32Len + 1))]
    ELSE IF data[U32Len + 1] = ReplyType
    THEN [kind |-> "Other", version |-> 0]
    ELSE [kind |-> "Error", version |-> 0]

\* ------------------------------------------------------------------------
\* Values of the one-shot reply channels: Result<Message, Error>
\* ------------------------------------------------------------------------
NoValue == [tag |-> "none", code |-> 0, body |-> <<>>, kind |-> ""]
\* Ok(message)
OkMessage(type, body) == [tag |-> "Ok", code |-> type, body |-> body, kind |-> ""]
\* Err(Error::Sftp(status))
ErrSftp(code) == [tag |-> "Sftp", code |-> code, body |-> <<>>, kind |-> ""]
\* Err(Error::WireFormat(_))
ErrWireFormat == [tag |-> "WireFormat", code |-> 0, body |-> <<>>, kind |-> ""]
\* Err(Error::Io(_)), by the kind of the io error
ErrIo(kind) == [tag |-> "Io", code |-> 0, body |-> <<>>, kind |-> kind]

\* ------------------------------------------------------------------------
\* The codec of the structured values (message/attrs.rs, status.rs, init.rs,
\* version.rs, extended.rs)
\* ------------------------------------------------------------------------

\* AttrFlags: one bit per optional field of Attrs
AttrFlagsSize == 1
AttrFlagsOwner == 2
AttrFlagsPerms == 4
AttrFlagsTime == 8
\* AttrFlags::all(): the bits that AttrFlags::from_bits accepts
AttrFlagsAll == AttrFlagsSize + AttrFlagsOwner + AttrFlagsPerms + AttrFlagsTime

\* bit b (a power of two) is set in n
HasBit(n, b) == (n \div b) % 2 = 1

\* An Option is a sequence: << >> is None, a non-empty one is Some.
\* Attrs: size is << >> or <<size>>, owner << >> or <<uid, gid>>, perms
\* << >> or <<perms>>, time << >> or <<atime, mtime>>.
IsSome(o) == o # << >>

\* a u64, big-endian; the sizes of the model are below 2^31, their high
\* word is zero
U64(n) == U32(0) \o U32(n)

\* the outcome of a decoder: the value and the bytes left, or the
\* WireFormatError
DecOk(val, rest) == [ok |-> TRUE, val |-> val, rest |-> rest, err |-> ""]
DecErr(err) == [ok |-> FALSE, val |-> << >>, rest |-> << >>, err |-> err]

\* the decoder reads a u32, a u64, a struct of two u32 (Owner, Time)
ReadU32(b) == IF Len(b) < U32Len THEN DecErr("NotEnoughData") ELSE DecOk(<<GetU32(b)>>, Drop(b, U32Len))
ReadU64(b) ==
    IF Len(b) < 2 * U32Len THEN DecErr("NotEnoughData")
    ELSE DecOk(<<GetU32(Drop(b, U32Len))>>, Drop(b, 2 * U32Len))
ReadPair(b) ==
    IF Len(b) < 2 * U32Len THEN DecErr("NotEnoughData")
    ELSE DecOk(<<GetU32(b), GetU32(Drop(b, U32Len))>>, Drop(b, 2 * U32Len))
\* the decoder reads the unit value: no byte is consumed
ReadUnit(b) == DecOk(<< >>, b)

\* a byte string with its length in front
WriteBytes(s) == U32(Len(s)) \o s
\* a decoder that hands out the bytes that are there when fewer than the
\* announced length are left
ReadBytesLenient(b) ==
    IF Len(b) < U32Len THEN DecErr("NotEnoughData")
    ELSE DecOk(Take(Drop(b, U32Len), Min(GetU32(b), Len(b) - U32Len)),
               Drop(b, U32Len + Min(GetU32(b), Len(b) - U32Len)))
ReadBytes(b) ==
    IF Len(b) < U32Len THEN DecErr("NotEnoughData")
    ELSE IF Len(b) - U32Len < GetU32(b) THEN DecErr("NotEnoughData")
    ELSE DecOk(Take(Drop(b, U32Len), GetU32(b)), Drop(b, U32Len + GetU32(b)))

\* impl Serialize for Attrs: the flags of the fields that are Some, then the
\* five elements of the tuple; a None element writes nothing
AttrsFlags(a) ==
    (IF IsSome(a.size) THEN AttrFlagsSize ELSE 0)
    + (IF IsSome(a.owner) THEN AttrFlagsOwner ELSE 0)
    + (IF IsSome(a.perms) THEN AttrFlagsPerms ELSE 0)
    + (IF IsSome(a.time) THEN AttrFlagsTime ELSE 0)

\* an encoder of a fixed layout: a field that is None is written as zeroes
EncodeAttrsFixed(a) ==
    U32(AttrsFlags(a))
    \o (IF IsSome(a.size) THEN U64(a.size[1]) ELSE U64(0))
    \o (IF IsSome(a.owner) THEN U32(a.owner[1]) \o U32(a.owner[2]) ELSE U64(0))
    \o (IF IsSome(a.perms) THEN U32(a.perms[1]) ELSE U32(0))
    \o (IF IsSome(a.time) THEN U32(a.time[1]) \o U32(a.time[2]) ELSE U64(0))

EncodeAttrs(a) ==
    U32(AttrsFlags(a))
    \o (IF IsSome(a.size) THEN U64(a.size[1]) ELSE << >>)
    \o (IF IsSome(a.owner) THEN U32(a.owner[1]) \o U32(a.owner[2]) ELSE << >>)
    \o (IF IsSome(a.perms) THEN U32(a.perms[1]) ELSE << >>)
    \o (IF IsSome(a.time) THEN U32(a.time[1]) \o U32(a.time[2]) ELSE << >>)

\* impl Deserialize for Attrs, visit_seq: the flags, refused with a custom
\* error when AttrFlags::from_bits knows not all of their bits; then each
\* field, a value when its flag is set and the unit value otherwise
DecodeAttrs(b) ==
    LET fl == ReadU32(b)
        flags == fl.val[1]
        sz == IF HasBit(flags, AttrFlagsSize) THEN ReadU64(fl.rest) ELSE ReadUnit(fl.rest)
        ow == IF HasBit(flags, AttrFlagsOwner) THEN ReadPair(sz.rest) ELSE ReadUnit(sz.rest)
        pe == IF HasBit(flags, AttrFlagsPerms) THEN ReadU32(ow.rest) ELSE ReadUnit(ow.rest)
        ti == IF HasBit(flags, AttrFlagsTime) THEN ReadPair(pe.rest) ELSE ReadUnit(pe.rest)
    IN  IF ~fl.ok THEN fl
        ELSE IF flags > AttrFlagsAll THEN DecErr("Custom")
        ELSE IF ~sz.ok THEN sz
        ELSE IF ~ow.ok THEN ow
        ELSE IF ~pe.ok THEN pe
        ELSE IF ~ti.ok THEN ti
        ELSE DecOk([size |-> sz.val, owner |-> ow.val, perms |-> pe.val, time |-> ti.val], ti.rest)

\* Status: the code, the message and the language tag
EncodeStatus(s) == U32(s.code) \o WriteBytes(s.error) \o WriteBytes(s.language)

DecodeStatus(b) ==
    LET co == ReadU32(b)
        er == ReadBytes(co.rest)
        la == ReadBytes(er.rest)
    IN  IF ~co.ok THEN co
        ELSE IF ~er.ok THEN er
        ELSE IF ~la.ok THEN la
        ELSE DecOk([code |-> co.val[1], error |-> er.val, language |-> la.val], la.rest)

\* a map of implicit length: the pairs follow each other up to the end of
\* the frame
RECURSIVE EncodePairs(_)
EncodePairs(m) ==
    IF m = << >> THEN << >>
    ELSE WriteBytes(Head(m)[1]) \o WriteBytes(Head(m)[2]) \o EncodePairs(Tail(m))

RECURSIVE DecodePairs(_)
DecodePairs(b) ==
    IF b = << >> THEN DecOk(<< >>, << >>)
    ELSE LET k == ReadBytes(b)
             v == ReadBytes(k.rest)
             more == DecodePairs(v.rest)
         IN  IF ~k.ok THEN k
             ELSE IF ~v.ok THEN v
             ELSE IF ~more.ok THEN more
             ELSE DecOk(<< <<k.val, v.val>> >> \o more.val, << >>)

\* Init and Version: the version and the extensions, a map of implicit length
EncodeExtensions(i) == U32(i.version) \o EncodePairs(i.extensions)

DecodeExtensions(b) ==
    LET ve == ReadU32(b)
        ex == DecodePairs(ve.rest)
    IN  IF ~ve.ok THEN ve
        ELSE IF ~ex.ok THEN ex
        ELSE DecOk([version |-> ve.val[1], extensions |-> ex.val], << >>)

\* Extended: the name of the request, and data of implicit length: what is
\* left of the frame
EncodeExtended(e) == WriteBytes(e.request) \o e.data

DecodeExtended(b) ==
    LET rq == ReadBytes(b)
    IN  IF ~rq.ok THEN rq
        ELSE DecOk([request |-> rq.val, data |-> rq.rest], << >>)

\* the kinds of value of the catalogue that are encoded and decoded here
CodecKinds == {"Attrs", "Status", "Init", "Version", "Extended"}

EncodeValue(kind, v) ==
    CASE kind = "Attrs" -> EncodeAttrs(v)
      [] kind = "Status" -> EncodeStatus(v)
      [] kind \in {"Init", "Version"} -> EncodeExtensions(v)
      [] kind = "Extended" -> EncodeExtended(v)

DecodeValue(kind, b) ==
    CASE kind = "Attrs" -> DecodeAttrs(b)
      [] kind = "Status" -> DecodeStatus(b)
      [] kind \in {"Init", "Version"} -> DecodeExtensions(b)
      [] kind = "Extended" -> DecodeExtended(b)

\* impl From<DecodeError> for Error: the error that the caller of the
\* client sees when a frame could not be decoded
FromDecodeError(err) == ErrWireFormat

\* no value is being encoded
CodecIdle == [pc |-> "idle", kind |-> "", value |-> << >>, golden |-> << >>,
              bytes |-> << >>, input |-> "", result |-> DecErr("")]

\* ------------------------------------------------------------------------
\* State
\* ------------------------------------------------------------------------
VARIABLES
    \* Receiver (client/receiver.rs)
    onflight,         \* HashMap<u32, oneshot::Sender>: pairs <<id, request>>
    next_id,          \* u32
    commands,         \* the queue of the mpsc channel, oldest first
    rx_closed,        \* commands.close() was called
    response_size,    \* Option<u32>
    response_buffer,  \* bytes read and not yet consumed
    in_loop,          \* poll_next is inside its read loop
    task,             \* the task running Receiver::run: running, closing, finished
    \* the byte stream
    stream_out,       \* frames written by the client, in order
    stream_in,        \* what the server wrote and was not yet read, in the segments
                      \* (byte sequences) the transport delivers
    stream_eof,       \* the server has closed its side
    sent,             \* the frames the server has written, in order
    nerr,             \* read errors reported so far
    \* requests (client/request.rs)
    nreq,             \* calls of request_with so far
    fut,              \* SftpFuture of each request
    sink,             \* its one-shot channel
    val,              \* the value sent on the channel, or the error of the future
    out,              \* what the future returned when polled
    via,              \* the handle the request was issued through
    \* client handles (client/mod.rs, client/stop.rs)
    alive,            \* the handle exists
    client_commands,  \* SftpClient::commands is Some
    request_processor,\* SftpClient::request_processor is Some
    stopping,         \* the SftpClientStopping future borrowed from the handle
    handshake,        \* SftpClient::with_channel: how far it is, what it wrote, what
                      \* the server answered, the error it returned
    \* what is built on the client (client/request.rs, client/commands.rs)
    narrow,           \* one reply on its way through the callback of its request
    ops,              \* the requests made by composites and cursors, in order: who made
                      \* it and in which call, its kind, whether it was answered, what its
                      \* future returns
    composite,        \* the future of SftpClient::readdir
    file,             \* the File cursors: handle (an Arc, 0 for None), offset, pending
                      \* operation, the FileClosing future that borrows it, last return
    next_arc,         \* the next Arc<Handle> that Arc::new makes
    write_all,        \* the bytes the caller writes with repeated poll_write: how many,
                      \* and the offset of the cursor when it began
    dir,              \* the Dir cursor: handle, buffer, pending ReadDir, the DirClosing
                      \* future that borrows it, last return
    codec,            \* a value of the catalogue, its encoding, the bytes handed to
                      \* the decoder and what the decoder returned
    \* what has happened (history)
    idOf,             \* the ID assigned to each request
    dispatched,       \* frames handed to a sink: request, id, decoded or not, last byte
    log               \* events of the multiplexer, see the Log* operators

muxVars == <<onflight, next_id, commands, rx_closed, response_size, response_buffer, in_loop, task>>
streamVars == <<stream_out, stream_in, stream_eof, sent, nerr>>
reqVars == <<nreq, fut, sink, val, out, via>>
cursorVars == <<narrow, ops, composite, file, next_arc, write_all, dir, codec>>
clientVars == <<alive, client_commands, request_processor, stopping, handshake, cursorVars>>
histVars == <<idOf, dispatched, log>>
vars == <<muxVars, streamVars, reqVars, clientVars, histVars>>

\* The events the history records.
\*   wfail: requests whose frame could not be encoded or written
\*   rderr: classes of the read errors reported ("retried", "fatal")
\*   eof: a read returned no byte (end of file)
\*   exit: why Receiver::run left its loop (none, closed, eof, error)
\*   stopped: handles whose stop() was awaited until the task had finished
LogInit == [wfail |-> {}, rderr |-> {}, eof |-> FALSE, exit |-> "none", stopped |-> {}]

\* the session SftpClient::new returns: a running multiplexer, one handle
SessionInit ==
    /\ onflight = {}
    /\ next_id = 0
    /\ commands = << >>
    /\ rx_closed = FALSE
    /\ response_size = None
    /\ response_buffer = << >>
    /\ in_loop = FALSE
    /\ task = "running"
    /\ stream_out = << >>
    /\ stream_in = << >>
    /\ stream_eof = FALSE
    /\ sent = << >>
    /\ nerr = 0
    /\ nreq = 0
    /\ fut = [r \in Requests |-> "none"]
    /\ sink = [r \in Requests |-> "none"]
    /\ val = [r \in Requests |-> NoValue]
    /\ out = [r \in Requests |-> NoValue]
    /\ via = [r \in Requests |-> 0]
    /\ alive = [h \in Handles |-> h = 1]
    /\ client_commands = [h \in Handles |-> h = 1]
    /\ request_processor = [h \in Handles |-> h = 1]
    /\ stopping = [h \in Handles |-> "none"]
    /\ handshake = [phase |-> "established", init |-> EncodeInit(ProtocolVersion),
                    reply |-> EncodeVersion(ProtocolVersion), err |-> NoValue, events |-> 0]
    /\ idOf = [r \in Requests |-> 0]
    /\ dispatched = << >>
    /\ log = LogInit

\* nothing is on its way through a callback
NarrowIdle == [method |-> "none", msg |-> [variant |-> "none", code |-> 0, payload |-> << >>],
               result |-> NoValue, done |-> FALSE]

\* SftpClient::readdir was not called
CompositeIdle == [pc |-> "idle", cur |-> 0, entries |-> << >>, err |-> NoValue, result |-> NoValue]

\* PendingOperation::None
NoPending == [kind |-> "None", op |-> 0, arg |-> 0]

\* no FileClosing future borrows the file
NoClosing == [state |-> "none", op |-> 0, ready |-> FALSE]

\* a File that was not made yet
FileAbsent ==
    [st |-> "absent", client |-> "stopped", handle |-> 0, offset |-> 0,
     pending |-> NoPending, closing |-> NoClosing, call |-> "", ret |-> NoValue]

\* File::new(client, handle): the handle in its first Arc
FileNew ==
    [st |-> "live", client |-> "live", handle |-> 1, offset |-> 0,
     pending |-> NoPending, closing |-> NoClosing, call |-> "", ret |-> NoValue]

\* buffer: None
NoBuffer == [some |-> FALSE, entries |-> << >>]

\* a Dir that was not made yet
DirAbsent ==
    [st |-> "absent", build |-> "", client |-> "stopped", handle |-> FALSE, buffer |-> NoBuffer,
     pending |-> 0, closing |-> NoClosing, call |-> "", ret |-> NoValue, yielded |-> << >>]

\* Dir::new(client, handle): an empty buffer and no pending ReadDir
DirNew ==
    [st |-> "live", build |-> "", client |-> "live", handle |-> TRUE,
     buffer |-> [some |-> TRUE, entries |-> << >>],
     pending |-> 0, closing |-> NoClosing, call |-> "", ret |-> NoValue, yielded |-> << >>]

\* the caller writes nothing
NoWriteAll == [total |-> 0, start |-> 0]

\* no cursor exists
NoFiles ==
    /\ file = [f \in FileIds |-> FileAbsent]
    /\ next_arc = 1
    /\ write_all = NoWriteAll
    /\ dir = DirAbsent
    /\ codec = CodecIdle

\* no reply is being narrowed, no composite and no cursor exists
CursorInit ==
    /\ narrow = NarrowIdle
    /\ ops = << >>
    /\ composite = CompositeIdle
    /\ NoFiles

\* Receiver::new, and the client returned by SftpClient::new after the handshake
Init ==
    /\ CursorInit
    /\ SessionInit

\* ------------------------------------------------------------------------
\* The in-flight table
\* ------------------------------------------------------------------------
Keys(m) == {p[1] : p \in m}

\* HashMap::insert: an entry with the same key is replaced
Insert(m, id, r) == {p \in m : p[1] # id} \cup {<<id, r>>}

\* (mutant) the oldest entry is taken whatever the ID of the frame
RemovedOldest(m, id) ==
    IF m = {} THEN {} ELSE {CHOOSE p \in m : \A q \in m : p[1] <= q[1]}

\* (mutant) a frame with an unknown ID is given to some waiter
RemovedOrAny(m, id) ==
    IF \E p \in m : p[1] = id THEN {p \in m : p[1] = id}
    ELSE IF m = {} THEN {} ELSE {CHOOSE p \in m : TRUE}

\* HashMap::remove: the entries removed, and what is left
Removed(m, id) == {p \in m : p[1] = id}

\* (mutant) the sink is looked up and the entry stays in the table
RemoveKeeps(m, id) == m

Remove(m, id) == {p \in m : p[1] # id}

\* (mutant) the counter skips an ID
NextIdSkip(n) == n + 2

\* (mutant) the counter stays at the first ID
NextIdStuck(n) == IF n = 0 THEN 1 ELSE n

\* self.next_id += 1 (a u32: no behaviour of the model comes near its range)
NextId(n) == n + 1

\* ------------------------------------------------------------------------
\* send_response: tx.send(msg); the value is lost when the future was dropped
\* ------------------------------------------------------------------------
SinkAfterSend(S) ==
    [r \in Requests |-> IF r \in S THEN (IF fut[r] = "Dropped" THEN "gone" ELSE "sent") ELSE sink[r]]

ValAfterSend(S, v) ==
    [r \in Requests |-> IF r \in S /\ fut[r] # "Dropped" THEN v ELSE val[r]]

SendResponse(S, v) ==
    /\ sink' = SinkAfterSend(S)
    /\ val' = ValAfterSend(S, v)

\* ------------------------------------------------------------------------
\* The command channel
\* ------------------------------------------------------------------------
\* every mpsc::UnboundedSender has been dropped
NoSenders == \A h \in Handles : ~client_commands[h]

\* UnboundedSender::send fails once the receiver is closed or dropped
ChannelClosed == rx_closed \/ task = "finished"

\* (mutant) the newest command is taken first
NextCommandLast(q) == q[Len(q)]

\* the command poll_recv hands out
NextCommand(q) == Head(q)

RestCommands(q) == Tail(q)

\* ------------------------------------------------------------------------
\* Receiver::run, after the loop: fail what is in flight, close the queue
\* ------------------------------------------------------------------------
ExitRun(cause, lg) ==
    /\ SendResponse({p[2] : p \in onflight}, ErrSftp(ConnectionLost))
    /\ onflight' = {}
    /\ rx_closed' = TRUE
    /\ task' = "closing"
    /\ in_loop' = FALSE
    /\ log' = [lg EXCEPT !.exit = cause]

\* ------------------------------------------------------------------------
\* Receiver::poll_next, commands first; Receiver::run, StreamItem::Request
\* ------------------------------------------------------------------------
WriteOutcomes == {"Ok", "Encode", "Io"}

WriteError(w) == IF w = "Encode" THEN ErrWireFormat ELSE ErrIo("write")

\* (mutant) the sink of a request that could not be written is put in the table
RecvRequestInserts(w) ==
    /\ task = "running"
    /\ ~in_loop
    /\ commands # << >>
    /\ LET r == NextCommand(commands)
           id == NextId(next_id)
       IN /\ commands' = RestCommands(commands)
          /\ next_id' = id
          /\ idOf' = [idOf EXCEPT ![r] = id]
          /\ onflight' = Insert(onflight, id, r)
          /\ IF w = "Ok"
             THEN /\ stream_out' = Append(stream_out, Encode(ReqType, id, << >>))
                  /\ UNCHANGED <<sink, val, log>>
             ELSE /\ SendResponse({r}, WriteError(w))
                  /\ log' = [log EXCEPT !.wfail = @ \cup {r}]
                  /\ UNCHANGED stream_out
    /\ UNCHANGED <<rx_closed, response_size, response_buffer, in_loop, task>>
    /\ UNCHANGED <<stream_in, stream_eof, sent, nerr>>
    /\ UNCHANGED <<nreq, fut, out, via>>
    /\ UNCHANGED clientVars
    /\ UNCHANGED dispatched

RecvRequest(w) ==
    /\ task = "running"
    /\ ~in_loop
    /\ commands # << >>
    /\ LET r == NextCommand(commands)
           id == NextId(next_id)
       IN /\ commands' = RestCommands(commands)
          /\ next_id' = id
          /\ idOf' = [idOf EXCEPT ![r] = id]
          /\ IF w = "Ok"
             THEN /\ stream_out' = Append(stream_out, Encode(ReqType, id, << >>))
                  /\ onflight' = Insert(onflight, id, r)
                  /\ UNCHANGED <<sink, val, log>>
             ELSE /\ SendResponse({r}, WriteError(w))
                  /\ log' = [log EXCEPT !.wfail = @ \cup {r}]
                  /\ UNCHANGED <<stream_out, onflight>>
    /\ UNCHANGED <<rx_closed, response_size, response_buffer, in_loop, task>>
    /\ UNCHANGED <<stream_in, stream_eof, sent, nerr>>
    /\ UNCHANGED <<nreq, fut, out, via>>
    /\ UNCHANGED clientVars
    /\ UNCHANGED dispatched

\* The same in two steps, for a write that takes time. While run awaits
\* write_msg the task is inside the arm of the request: task = "writing".
\* StreamItem::Request: the command is taken and gets the next ID
StartWrite ==
    /\ task = "running"
    /\ ~in_loop
    /\ commands # << >>
    /\ commands' = RestCommands(commands)
    /\ next_id' = NextId(next_id)
    /\ idOf' = [idOf EXCEPT ![NextCommand(commands)] = NextId(next_id)]
    /\ task' = "writing"
    /\ UNCHANGED <<onflight, rx_closed, response_size, response_buffer, in_loop>>
    /\ UNCHANGED streamVars
    /\ UNCHANGED reqVars
    /\ UNCHANGED clientVars
    /\ UNCHANGED <<dispatched, log>>

\* write_msg has returned
EndWrite(w) ==
    /\ task = "writing"
    /\ task' = "running"
    /\ LET r == CHOOSE q \in Requests : idOf[q] = next_id
       IN IF w = "Ok"
          THEN /\ stream_out' = Append(stream_out, Encode(ReqType, next_id, << >>))
               /\ onflight' = Insert(onflight, next_id, r)
               /\ UNCHANGED <<sink, val, log>>
          ELSE /\ SendResponse({r}, WriteError(w))
               /\ log' = [log EXCEPT !.wfail = @ \cup {r}]
               /\ UNCHANGED <<stream_out, onflight>>
    /\ UNCHANGED <<next_id, commands, rx_closed, response_size, response_buffer, in_loop>>
    /\ UNCHANGED <<stream_in, stream_eof, sent, nerr>>
    /\ UNCHANGED <<nreq, fut, out, via>>
    /\ UNCHANGED clientVars
    /\ UNCHANGED <<idOf, dispatched>>

\* poll_recv returned Ready(None) and nothing is in flight: the stream ends
CommandsClosed ==
    /\ task = "running"
    /\ ~in_loop
    /\ commands = << >>
    /\ NoSenders
    /\ onflight = {}
    /\ ExitRun("closed", log)
    /\ UNCHANGED <<next_id, commands, response_size, response_buffer>>
    /\ UNCHANGED streamVars
    /\ UNCHANGED <<nreq, fut, out, via>>
    /\ UNCHANGED clientVars
    /\ UNCHANGED <<idOf, dispatched>>

\* ------------------------------------------------------------------------
\* Receiver::poll_next, the read loop
\* ------------------------------------------------------------------------
\* (mutant) the stream is read whether or not a command is waiting
CanReadFirst == task = "running"

\* No command was available: the loop is entered, or poll_next is inside it
CanRead ==
    /\ task = "running"
    /\ \/ in_loop
       \/ commands = << >> /\ ~(NoSenders /\ onflight = {})

\* new_len: what the buffer must hold before the loop can go on
NewLen == IF response_size # None THEN response_size ELSE U32Len

NeedRead == Len(response_buffer) < NewLen

\* the space offered to poll_read: buffer.resize(new_len.max(1024)), from old_len
ReadSpace == Max(NewLen, MinRead) - Len(response_buffer)

\* the end-of-file test made after a read of len bytes into a buffer of old_len
IsEof(len, old_len) == len = old_len

\* the error kinds after which Receiver::run goes on
RetriedKinds == {"WouldBlock", "TimedOut", "WriteZero", "Interrupted", "OutOfMemory"}

ErrKinds == RetriedKinds \cup {"ConnectionReset", "BrokenPipe"}

\* (mutant) no read error is retried
IsRetriedNone(kind) == FALSE

\* the match on err.kind() in Receiver::run
IsRetried(kind) == kind \in RetriedKinds

\* Receiver::run, StreamItem::Response
RunResponse(frame) ==
    LET d == DecodeRaw(frame)
        hit == IF d.hasId THEN Removed(onflight, d.id) ELSE {}
    IN IF hit # {}
       THEN /\ onflight' = Remove(onflight, d.id)
            /\ SendResponse({p[2] : p \in hit},
                            IF d.ok THEN OkMessage(d.type, d.body) ELSE ErrWireFormat)
            /\ dispatched' = Append(dispatched,
                                 [req |-> (CHOOSE p \in hit : TRUE)[2], id |-> d.id,
                                  ok |-> d.ok, k |-> frame[Len(frame)]])
       ELSE UNCHANGED <<onflight, sink, val, dispatched>>

\* Must read the size of the frame: the buffer holds the four bytes
ReadSize ==
    /\ CanRead
    /\ response_size = None
    /\ Len(response_buffer) >= U32Len
    /\ response_size' = GetU32(response_buffer)
    /\ response_buffer' = Drop(response_buffer, U32Len)
    /\ in_loop' = TRUE
    /\ UNCHANGED <<onflight, next_id, commands, rx_closed, task>>
    /\ UNCHANGED streamVars
    /\ UNCHANGED reqVars
    /\ UNCHANGED clientVars
    /\ UNCHANGED histVars

\* A size has been read and the buffer holds the frame: it is handed to run
EmitResponse ==
    /\ CanRead
    /\ response_size # None
    /\ Len(response_buffer) >= response_size
    /\ response_size' = None
    /\ response_buffer' = Drop(response_buffer, response_size)
    /\ in_loop' = FALSE
    /\ RunResponse(Take(response_buffer, response_size))
    /\ UNCHANGED <<next_id, commands, rx_closed, task>>
    /\ UNCHANGED streamVars
    /\ UNCHANGED <<nreq, fut, out, via>>
    /\ UNCHANGED clientVars
    /\ UNCHANGED <<idOf, log>>

\* what follows a read that returned Ready(Ok) with len bytes
AfterRead(len, old_len, lg) ==
    IF IsEof(len, old_len)
    THEN ExitRun("eof", lg)
    ELSE /\ in_loop' = TRUE
         /\ log' = lg
         /\ UNCHANGED <<onflight, rx_closed, task, sink, val>>

\* the bytes one poll_read returns: what is left of the first segment, up to the
\* space offered
ReadLen == Min(Len(Head(stream_in)), ReadSpace)

\* poll_read returned Ready(Ok) with ReadLen bytes
PollReadData ==
    /\ CanRead
    /\ NeedRead
    /\ stream_in # << >>
    /\ response_buffer' = response_buffer \o Take(Head(stream_in), ReadLen)
    /\ stream_in' = IF ReadLen = Len(Head(stream_in))
                    THEN Tail(stream_in)
                    ELSE <<Drop(Head(stream_in), ReadLen)>> \o Tail(stream_in)
    /\ AfterRead(ReadLen, Len(response_buffer), log)
    /\ UNCHANGED <<next_id, commands, response_size>>
    /\ UNCHANGED <<stream_out, stream_eof, sent, nerr>>
    /\ UNCHANGED <<nreq, fut, out, via>>
    /\ UNCHANGED clientVars
    /\ UNCHANGED <<idOf, dispatched>>

\* poll_read returned Ready(Ok) with no byte: the server has closed its side
PollReadEof ==
    /\ CanRead
    /\ NeedRead
    /\ stream_in = << >>
    /\ stream_eof
    /\ AfterRead(0, Len(response_buffer), [log EXCEPT !.eof = TRUE])
    /\ UNCHANGED <<next_id, commands, response_size, response_buffer>>
    /\ UNCHANGED streamVars
    /\ UNCHANGED <<nreq, fut, out, via>>
    /\ UNCHANGED clientVars
    /\ UNCHANGED <<idOf, dispatched>>

\* poll_read returned Pending (what the server wrote has not arrived yet):
\* poll_next returns Pending
PollReadPending ==
    /\ CanRead
    /\ NeedRead
    /\ in_loop
    /\ ~(stream_in = << >> /\ stream_eof)
    /\ in_loop' = FALSE
    /\ UNCHANGED <<onflight, next_id, commands, rx_closed, response_size, response_buffer, task>>
    /\ UNCHANGED streamVars
    /\ UNCHANGED reqVars
    /\ UNCHANGED clientVars
    /\ UNCHANGED histVars

\* poll_read returned an error; Receiver::run, StreamItem::Error
PollReadError(kind) ==
    /\ CanRead
    /\ NeedRead
    /\ nerr < MaxErr
    /\ nerr' = nerr + 1
    /\ IF IsRetried(kind)
       THEN /\ in_loop' = FALSE
            /\ log' = [log EXCEPT !.rderr = @ \cup {"retried"}]
            /\ UNCHANGED <<onflight, rx_closed, task, sink, val>>
       ELSE ExitRun("error", [log EXCEPT !.rderr = @ \cup {"fatal"}])
    /\ UNCHANGED <<next_id, commands, response_size, response_buffer>>
    /\ UNCHANGED <<stream_out, stream_in, stream_eof, sent>>
    /\ UNCHANGED <<nreq, fut, out, via>>
    /\ UNCHANGED clientVars
    /\ UNCHANGED <<idOf, dispatched>>

\* (mutant) run returns but the commands still queued are kept
ShutdownDoneKeeps ==
    /\ task = "closing"
    /\ task' = "finished"
    /\ UNCHANGED <<onflight, next_id, commands, rx_closed, response_size, response_buffer, in_loop>>
    /\ UNCHANGED streamVars
    /\ UNCHANGED reqVars
    /\ UNCHANGED clientVars
    /\ UNCHANGED histVars

\* stream.shutdown() has returned: run returns, the receiver is dropped and with
\* it the commands still queued
ShutdownDone ==
    /\ task = "closing"
    /\ task' = "finished"
    /\ commands' = << >>
    /\ sink' = [r \in Requests |->
                  IF \E i \in 1..Len(commands) : commands[i] = r THEN "closed" ELSE sink[r]]
    /\ UNCHANGED <<onflight, next_id, rx_closed, response_size, response_buffer, in_loop>>
    /\ UNCHANGED streamVars
    /\ UNCHANGED <<nreq, fut, val, out, via>>
    /\ UNCHANGED clientVars
    /\ UNCHANGED histVars

\* ------------------------------------------------------------------------
\* The server
\* ------------------------------------------------------------------------
FrameKinds == {"Reply", "BadType", "Short"}

\* the k-th frame of the server: a reply, a frame of unknown type, a frame too
\* short to hold an id
FrameBytes(kind, id, k) ==
    CASE kind = "Reply" -> Encode(ReplyType, id, <<k>>)
      [] kind = "BadType" -> Encode(UnknownType, id, <<k>>)
      [] kind = "Short" -> U32(1) \o <<ReplyType>>

\* bytes cut into segments of the lengths of split
RECURSIVE Segments(_, _)
Segments(bytes, split) ==
    IF split = << >> THEN << >>
    ELSE <<Take(bytes, Head(split))>> \o Segments(Drop(bytes, Head(split)), Tail(split))

RECURSIVE Sum(_)
Sum(split) == IF split = << >> THEN 0 ELSE Head(split) + Sum(Tail(split))

\* the server writes its next frame; the transport delivers it in the segments
\* of split
ServerSend(id, kind, split) ==
    /\ task # "finished"
    /\ ~stream_eof
    /\ Len(sent) < MaxFrames
    /\ kind = "Short" => id = 0
    /\ LET bytes == FrameBytes(kind, id, Len(sent) + 1)
       IN /\ Sum(split) = Len(bytes)
          /\ \A i \in 1..Len(split) : split[i] >= 1
          /\ stream_in' = stream_in \o Segments(bytes, split)
    /\ sent' = Append(sent, [id |-> id, kind |-> kind])
    /\ UNCHANGED <<stream_out, stream_eof, nerr>>
    /\ UNCHANGED muxVars
    /\ UNCHANGED reqVars
    /\ UNCHANGED clientVars
    /\ UNCHANGED histVars

\* the server closes its side between two frames, or inside a frame
CutLens == {0, U32Len + 2}

\* the server closes its side, after the first cut bytes of a last frame
ServerClose(cut) ==
    /\ task # "finished"
    /\ ~stream_eof
    /\ stream_eof' = TRUE
    /\ stream_in' = IF cut = 0 THEN stream_in
                    ELSE Append(stream_in, Take(Encode(ReplyType, 0, <<0>>), cut))
    /\ UNCHANGED <<stream_out, sent, nerr>>
    /\ UNCHANGED muxVars
    /\ UNCHANGED reqVars
    /\ UNCHANGED clientVars
    /\ UNCHANGED histVars

\* ------------------------------------------------------------------------
\* SftpClient::request_with and SftpFuture (client/request.rs)
\* ------------------------------------------------------------------------
\* the request handed to request_with: a message, Status(Ok), another Status,
\* or the error of a failed conversion
ReqInputs == {"Msg", "StatusOk", "Status", "Err"}

\* the error of the SftpFuture::Error returned for an input that is not sent
InputError(input) ==
    CASE input = "StatusOk" -> ErrSftp(BadMessage)
      [] input = "Status" -> ErrSftp(Failure)
      [] input = "Err" -> ErrWireFormat
      [] OTHER -> NoValue

\* (mutant) the request is not sent when the future is made
EnqueueLater(q, r) == q

\* the request is put on the queue before the future is returned
Enqueue(q, r) == Append(q, r)

RequestWith(h, input) ==
    /\ alive[h]
    /\ stopping[h] = "none"
    /\ nreq < MaxReq
    /\ LET r == nreq + 1
       IN /\ nreq' = r
          /\ via' = [via EXCEPT ![r] = h]
          /\ IF ~client_commands[h]
             THEN /\ fut' = [fut EXCEPT ![r] = "Error"]
                  /\ val' = [val EXCEPT ![r] = ErrIo("BrokenPipe")]
                  /\ UNCHANGED <<commands, sink>>
             ELSE IF input # "Msg"
             THEN /\ fut' = [fut EXCEPT ![r] = "Error"]
                  /\ val' = [val EXCEPT ![r] = InputError(input)]
                  /\ UNCHANGED <<commands, sink>>
             ELSE IF ChannelClosed
             THEN /\ fut' = [fut EXCEPT ![r] = "Error"]
                  /\ val' = [val EXCEPT ![r] = ErrSftp(Failure)]
                  /\ UNCHANGED <<commands, sink>>
             ELSE /\ fut' = [fut EXCEPT ![r] = "Pending"]
                  /\ sink' = [sink EXCEPT ![r] = "open"]
                  /\ commands' = Enqueue(commands, r)
                  /\ UNCHANGED val
    /\ UNCHANGED <<onflight, next_id, rx_closed, response_size, response_buffer, in_loop, task>>
    /\ UNCHANGED streamVars
    /\ UNCHANGED out
    /\ UNCHANGED clientVars
    /\ UNCHANGED histVars

\* SftpFuture::poll returning Ready
PollFuture(r) ==
    /\ \/ /\ fut[r] = "Error"
          /\ out' = [out EXCEPT ![r] = val[r]]
       \/ /\ fut[r] = "Pending"
          /\ sink[r] = "sent"
          /\ out' = [out EXCEPT ![r] = val[r]]
       \/ /\ fut[r] = "Pending"
          /\ sink[r] = "closed"
          /\ out' = [out EXCEPT ![r] = ErrIo("ConnectionReset")]
    /\ fut' = [fut EXCEPT ![r] = "Polled"]
    /\ UNCHANGED muxVars
    /\ UNCHANGED streamVars
    /\ UNCHANGED <<nreq, sink, val, via>>
    /\ UNCHANGED clientVars
    /\ UNCHANGED histVars

\* (mutant) dropping the future cancels the request: its entry is removed
DropFutureCancel(r) ==
    /\ fut[r] = "Pending"
    /\ fut' = [fut EXCEPT ![r] = "Dropped"]
    /\ onflight' = {p \in onflight : p[2] # r}
    /\ UNCHANGED <<next_id, commands, rx_closed, response_size, response_buffer, in_loop, task>>
    /\ UNCHANGED streamVars
    /\ UNCHANGED <<nreq, sink, val, out, via>>
    /\ UNCHANGED clientVars
    /\ UNCHANGED histVars

\* the future is dropped before it has returned Ready
DropFuture(r) ==
    /\ fut[r] = "Pending"
    /\ fut' = [fut EXCEPT ![r] = "Dropped"]
    /\ UNCHANGED muxVars
    /\ UNCHANGED streamVars
    /\ UNCHANGED <<nreq, sink, val, out, via>>
    /\ UNCHANGED clientVars
    /\ UNCHANGED histVars

\* ------------------------------------------------------------------------
\* Client handles: clone, stop, drop (client/mod.rs, client/stop.rs)
\* ------------------------------------------------------------------------
\* Arc::into_inner: Some when no other handle holds the Arc
IntoInner(h) == \A g \in Handles \ {h} : ~request_processor[g]

\* #[derive(Clone)]
CloneClient(h, g) ==
    /\ alive[h]
    /\ stopping[h] = "none"
    /\ ~alive[g]
    /\ \A k \in Handles : k > g => ~alive[k]
    /\ g > h
    /\ alive' = [alive EXCEPT ![g] = TRUE]
    /\ client_commands' = [client_commands EXCEPT ![g] = client_commands[h]]
    /\ request_processor' = [request_processor EXCEPT ![g] = request_processor[h]]
    /\ UNCHANGED <<stopping, handshake, cursorVars>>
    /\ UNCHANGED muxVars
    /\ UNCHANGED streamVars
    /\ UNCHANGED reqVars
    /\ UNCHANGED histVars

\* SftpClient::is_stopped
IsStopped(h) == ~client_commands[h]

\* (mutant) the JoinHandle is taken whoever else holds the Arc
StoppingNewAny(h) == IF request_processor[h] THEN "join" ELSE "idle"

\* SftpClientStopping::new: "join" when the future holds the JoinHandle
StoppingNew(h) == IF request_processor[h] /\ IntoInner(h) THEN "join" ELSE "idle"

\* (mutant) stop leaves the sender of the handle in place
StopKeepsCommands(h) ==
    /\ alive[h]
    /\ stopping[h] = "none"
    /\ request_processor' = [request_processor EXCEPT ![h] = FALSE]
    /\ stopping' = [stopping EXCEPT ![h] = StoppingNew(h)]
    /\ UNCHANGED <<alive, client_commands, handshake, cursorVars>>
    /\ UNCHANGED muxVars
    /\ UNCHANGED streamVars
    /\ UNCHANGED reqVars
    /\ UNCHANGED histVars

\* SftpClient::stop
Stop(h) ==
    /\ alive[h]
    /\ stopping[h] = "none"
    /\ client_commands' = [client_commands EXCEPT ![h] = FALSE]
    /\ request_processor' = [request_processor EXCEPT ![h] = FALSE]
    /\ stopping' = [stopping EXCEPT ![h] = StoppingNew(h)]
    /\ UNCHANGED <<alive, handshake, cursorVars>>
    /\ UNCHANGED muxVars
    /\ UNCHANGED streamVars
    /\ UNCHANGED reqVars
    /\ UNCHANGED histVars

\* SftpClientStopping::poll returning Ready, then the drop of the future
StopReady(h) ==
    /\ stopping[h] # "none"
    /\ stopping[h] = "join" => task = "finished"
    /\ stopping' = [stopping EXCEPT ![h] = "none"]
    /\ log' = [log EXCEPT !.stopped = IF stopping[h] = "join" THEN @ \cup {h} ELSE @]
    /\ UNCHANGED <<alive, client_commands, request_processor, handshake, cursorVars>>
    /\ UNCHANGED muxVars
    /\ UNCHANGED streamVars
    /\ UNCHANGED reqVars
    /\ UNCHANGED <<idOf, dispatched>>

\* Drop for SftpClientStopping before it returned Ready: the JoinHandle is put back
StopDrop(h) ==
    /\ stopping[h] # "none"
    /\ request_processor' = [request_processor EXCEPT ![h] = stopping[h] = "join"]
    /\ stopping' = [stopping EXCEPT ![h] = "none"]
    /\ UNCHANGED <<alive, client_commands, handshake, cursorVars>>
    /\ UNCHANGED muxVars
    /\ UNCHANGED streamVars
    /\ UNCHANGED reqVars
    /\ UNCHANGED histVars

\* Drop for SftpClient: SftpClientStopping::new(self).forget()
DropClient(h) ==
    /\ alive[h]
    /\ stopping[h] = "none"
    /\ alive' = [alive EXCEPT ![h] = FALSE]
    /\ client_commands' = [client_commands EXCEPT ![h] = FALSE]
    /\ request_processor' = [request_processor EXCEPT ![h] = FALSE]
    /\ UNCHANGED <<stopping, handshake, cursorVars>>
    /\ UNCHANGED muxVars
    /\ UNCHANGED streamVars
    /\ UNCHANGED reqVars
    /\ UNCHANGED histVars

\* ------------------------------------------------------------------------
\* The callback of a request: SftpReply::from_reply_message (client/request.rs)
\* ------------------------------------------------------------------------
StatusOk == 0
Eof == 1
StatusCodes == 0..8

\* the requests of request_impl!, and SftpClient::read of client/commands.rs
RequestKinds ==
    {"Open", "Close", "Read", "Write", "LStat", "FStat", "SetStat", "FSetStat", "OpenDir",
     "ReadDir", "Remove", "MkDir", "RmDir", "RealPath", "Stat", "Rename", "ReadLink",
     "Symlink", "Extended"}

Methods == RequestKinds \cup {"SftpClient::read"}

\* SftpRequest::Reply of each request: "Unit" is ()
ReplyOf(kind) ==
    CASE kind \in {"Open", "OpenDir"} -> "Handle"
      [] kind = "Read" -> "Data"
      [] kind \in {"LStat", "FStat", "Stat"} -> "Attrs"
      [] kind \in {"ReadDir", "RealPath", "ReadLink"} -> "Name"
      [] kind = "Extended" -> "ExtendedReply"
      [] OTHER -> "Unit"

\* the messages a server can answer with
ReplyVariants == {"Status", "Handle", "Data", "Name", "Attrs", "ExtendedReply", "Version"}

Payloads == {<< >>, <<7>>}

ReplyMessages ==
    {[variant |-> "Status", code |-> c, payload |-> << >>] : c \in StatusCodes}
        \cup {[variant |-> v, code |-> 0, payload |-> b] : v \in ReplyVariants \ {"Status"}, b \in Payloads}

\* Ok(payload) returned by a callback
OkPayload(payload) == [tag |-> "Ok", code |-> 0, body |-> payload, kind |-> ""]

\* SftpReply::from_reply_message: impl for () and reply_impl!
FromReplyMessage(expected, msg) ==
    IF expected = "Unit"
    THEN IF msg.variant = "Status"
         THEN (IF msg.code = StatusOk THEN OkPayload(<< >>) ELSE ErrSftp(msg.code))
         ELSE ErrSftp(BadMessage)
    ELSE IF msg.variant = expected THEN OkPayload(msg.payload)
    ELSE IF msg.variant = "Status" THEN ErrSftp(msg.code)
    ELSE ErrSftp(BadMessage)

\* the callback f handed to request_with by each method
Callback(method, msg) ==
    IF method = "SftpClient::read"
    THEN FromReplyMessage("Handle", msg)
    ELSE FromReplyMessage(ReplyOf(method), msg)

\* a request of any kind and the reply the multiplexer hands to its future
InitNarrow ==
    /\ SessionInit
    /\ ops = << >>
    /\ composite = CompositeIdle
    /\ NoFiles
    /\ narrow \in {[method |-> m, msg |-> r, result |-> NoValue, done |-> FALSE] :
                      m \in Methods, r \in ReplyMessages}

\* SftpFuture::poll: f(state, msg)
Narrow ==
    /\ ~narrow.done
    /\ narrow.method # "none"
    /\ narrow' = [narrow EXCEPT !.result = Callback(narrow.method, narrow.msg), !.done = TRUE]
    /\ UNCHANGED <<ops, composite, file, next_arc, write_all, dir, codec>>
    /\ UNCHANGED <<alive, client_commands, request_processor, stopping, handshake>>
    /\ UNCHANGED muxVars
    /\ UNCHANGED streamVars
    /\ UNCHANGED reqVars
    /\ UNCHANGED histVars

\* ------------------------------------------------------------------------
\* Requests of composites and cursors, and their answers
\* ------------------------------------------------------------------------
\* SftpClient::request(kind) by owner: the request is sent at once (request_with)
IssueAt(q, by, call, kind, offset, length) ==
    Append(q, [by |-> by, via |-> call, op |-> kind, offset |-> offset, length |-> length,
               state |-> "sent", res |-> NoValue])

\* a request that carries no offset and no data
Issue(q, by, kind) == IssueAt(q, by, "readdir", kind, 0, 0)

\* the request i was made and its reply has not come
Unanswered_(i) == i \in 1..Len(ops) /\ ops[i].state = "sent"

\* what the server may answer to the i-th request, by its kind
ServerAnswers(kind, i) ==
    CASE kind = "OpenDir" ->
            {[variant |-> "Handle", code |-> 0, payload |-> <<7>>],
             [variant |-> "Status", code |-> Failure, payload |-> << >>]}
      [] kind = "ReadDir" ->
            {[variant |-> "Name", code |-> 0, payload |-> << >>],
             [variant |-> "Name", code |-> 0, payload |-> <<i>>],
             [variant |-> "Name", code |-> 0, payload |-> <<i, i + 10>>],
             [variant |-> "Status", code |-> Eof, payload |-> << >>],
             [variant |-> "Status", code |-> Failure, payload |-> << >>]}
      [] kind = "Read" ->
            {[variant |-> "Data", code |-> 0, payload |-> <<i>>],
             [variant |-> "Data", code |-> 0, payload |-> <<i, i + 10>>],
             [variant |-> "Status", code |-> Eof, payload |-> << >>],
             [variant |-> "Status", code |-> Failure, payload |-> << >>]}
      [] kind = "FStat" ->
            {[variant |-> "Attrs", code |-> 0, payload |-> <<i>>],
             [variant |-> "Attrs", code |-> 0, payload |-> <<U64Max>>],
             [variant |-> "Attrs", code |-> 0, payload |-> << >>],
             [variant |-> "Status", code |-> Failure, payload |-> << >>]}
      [] OTHER ->
            {[variant |-> "Status", code |-> StatusOk, payload |-> << >>],
             [variant |-> "Status", code |-> Failure, payload |-> << >>]}

\* the reply to request i comes in and goes through the callback of its future
AnswerOp(i, msg) ==
    /\ Unanswered_(i)
    /\ msg \in ServerAnswers(ops[i].op, i)
    /\ ops' = [ops EXCEPT ![i].state = "answered",
                          ![i].res = FromReplyMessage(ReplyOf(ops[i].op), msg)]
    /\ UNCHANGED <<narrow, composite, file, next_arc, write_all, dir, codec>>
    /\ UNCHANGED <<alive, client_commands, request_processor, stopping, handshake>>
    /\ UNCHANGED muxVars
    /\ UNCHANGED streamVars
    /\ UNCHANGED reqVars
    /\ UNCHANGED histVars

\* ------------------------------------------------------------------------
\* SftpClient::readdir (client/commands.rs)
\* ------------------------------------------------------------------------
\* SftpClient::readdir: OpenDir is sent when readdir is called
ReaddirStart ==
    /\ composite.pc = "idle"
    /\ ops = << >>
    /\ ops' = Issue(ops, 0, "OpenDir")
    /\ composite' = [composite EXCEPT !.pc = "opendir", !.cur = Len(ops) + 1]
    /\ UNCHANGED <<narrow, file, next_arc, write_all, dir, codec>>
    /\ UNCHANGED <<alive, client_commands, request_processor, stopping, handshake>>
    /\ UNCHANGED muxVars
    /\ UNCHANGED streamVars
    /\ UNCHANGED reqVars
    /\ UNCHANGED histVars

\* (mutant) a ReadDir that fails ends the composite without a Close
AfterReadDirNoClose(res) ==
    IF res.tag = "Ok" THEN "readdir"
    ELSE IF res = ErrSftp(Eof) THEN "close_eof"
    ELSE "done"

\* the match on the result of readdir_handle: where the composite goes next
AfterReadDir(res) ==
    IF res.tag = "Ok" THEN "readdir"
    ELSE IF res = ErrSftp(Eof) THEN "close_eof"
    ELSE "close_err"

\* the request the composite makes when it enters pc
RequestAt(pc) ==
    CASE pc = "readdir" -> "ReadDir"
      [] pc \in {"close_eof", "close_err"} -> "Close"
      [] OTHER -> "none"

\* the future of readdir is polled and the request it awaits was answered
ReaddirStep ==
    /\ composite.pc \in {"opendir", "readdir", "close_eof", "close_err"}
    /\ ops[composite.cur].state = "answered"
    /\ Len(ops) < MaxOps \/ composite.pc \in {"close_eof", "close_err"}
    /\ LET res == ops[composite.cur].res
           pc == CASE composite.pc = "opendir" -> (IF res.tag = "Ok" THEN "readdir" ELSE "done")
                   [] composite.pc = "readdir" -> AfterReadDir(res)
                   [] OTHER -> "done"
       IN /\ ops' = IF RequestAt(pc) = "none" THEN ops ELSE Issue(ops, 0, RequestAt(pc))
          /\ composite' =
                [pc |-> pc,
                 cur |-> IF RequestAt(pc) = "none" THEN composite.cur ELSE Len(ops) + 1,
                 entries |-> IF composite.pc = "readdir" /\ res.tag = "Ok"
                             THEN composite.entries \o res.body ELSE composite.entries,
                 err |-> IF composite.pc = "readdir" /\ pc \in {"close_err", "done"}
                         THEN res ELSE composite.err,
                 result |-> IF pc # "done" THEN NoValue
                            ELSE IF composite.pc = "opendir" THEN res
                            ELSE IF composite.pc = "readdir" THEN res
                            ELSE IF composite.pc = "close_err" THEN composite.err
                            ELSE IF res.tag = "Ok" THEN OkPayload(composite.entries)
                            ELSE res]
    /\ UNCHANGED <<narrow, file, next_arc, write_all, dir, codec>>
    /\ UNCHANGED <<alive, client_commands, request_processor, stopping, handshake>>
    /\ UNCHANGED muxVars
    /\ UNCHANGED streamVars
    /\ UNCHANGED reqVars
    /\ UNCHANGED histVars

\* ------------------------------------------------------------------------
\* File (client/file): the cursor over a remote file
\* ------------------------------------------------------------------------
\* The caller keeps the SftpClient the file was opened with: the client of a
\* File is never the last handle of the session, so that stopping it does not
\* wait for the multiplexer (SftpClientStopping::new, is_stopped).

\* the actions of a File leave the session and the composites alone
OnlyFiles ==
    /\ UNCHANGED <<narrow, composite, write_all, dir, codec>>
    /\ UNCHANGED <<alive, client_commands, request_processor, stopping, handshake>>
    /\ UNCHANGED muxVars
    /\ UNCHANGED streamVars
    /\ UNCHANGED reqVars
    /\ UNCHANGED histVars

\* Poll::Pending
RetPending == [tag |-> "Pending", code |-> 0, body |-> << >>, kind |-> ""]
\* Ok(n), a length or an offset
OkNum(n) == [tag |-> "Ok", code |-> n, body |-> << >>, kind |-> ""]
\* a panic of the handler
Panic == [tag |-> "Panic", code |-> 0, body |-> << >>, kind |-> ""]

\* impl From<Error> for std::io::Error
IntoIo(v) ==
    IF v.tag = "Sftp"
    THEN ErrIo(CASE v.code = Eof -> "UnexpectedEof"
                 [] v.code = NoSuchFile -> "NotFound"
                 [] v.code = PermissionDenied -> "PermissionDenied"
                 [] v.code = BadMessage -> "InvalidData"
                 [] v.code = OpUnsupported -> "Unsupported"
                 [] OTHER -> "Other")
    ELSE IF v.tag = "WireFormat" THEN ErrIo("Other")
    ELSE v

\* the File can be used: it was not dropped and no FileClosing borrows it
Usable(f) == file[f].st = "live" /\ file[f].closing.state = "none"

\* the files that hold the Arc a
Holders(a) == {f \in FileIds : file[f].handle = a}

\* Arc::into_inner(handle) gives the handle: f holds the last reference
LastHolder(f) == file[f].handle # 0 /\ Holders(file[f].handle) = {f}

\* file.client.request(..) sends a request unless the client was stopped
\* (request_with returns SftpFuture::Error then): the requests after it
Requested(f, call, kind, offset, length) ==
    IF file[f].client = "live" THEN IssueAt(ops, f, call, kind, offset, length) ELSE ops

\* the future that Requested made: the index of its request, 0 for a future
\* that holds an error and made no request
RequestIndex(f) == IF file[f].client = "live" THEN Len(ops) + 1 ELSE 0

\* the request can still be made within the bound of the model
CanRequest(f) == file[f].client = "live" => Len(ops) < MaxFileOps

\* (mutant) u64::wrapping_add_signed in the place of checked_add_signed
WrappingAddSigned(n, i) == (n + i) % (U64Max + 1)

\* u64::checked_add_signed: None when the sum is negative or above u64::MAX
CheckedAddSigned(n, i) == IF n + i < 0 \/ n + i > U64Max THEN None ELSE n + i

\* `self.offset += len`: what the build can make of it, a panic (overflow
\* checks on) or the sum modulo 2^64 (overflow checks off) when the sum is
\* above u64::MAX
Advanced(offset, len) ==
    IF offset + len <= U64Max
    THEN {[panic |-> FALSE, offset |-> offset + len]}
    ELSE {[panic |-> TRUE, offset |-> offset],
          [panic |-> FALSE, offset |-> (offset + len) % (U64Max + 1)]}

\* (mutant) the future of a Read hands the Eof status on as an error
FutureOutputEofError(p) ==
    LET res == IF p.op = 0 THEN ErrIo("BrokenPipe") ELSE ops[p.op].res IN
    CASE p.kind = "Read" -> (IF res.tag = "Ok" THEN res ELSE IntoIo(res))
      [] p.kind = "Write" -> (IF res.tag = "Ok" THEN OkNum(ops[p.op].length) ELSE res)
      [] p.kind = "Seek" ->
            (IF res.tag # "Ok" THEN IntoIo(res)
             ELSE IF res.body = << >> THEN ErrIo("Unsupported")
             ELSE IF CheckedAddSigned(res.body[1], p.arg) = None THEN ErrIo("InvalidData")
             ELSE OkNum(CheckedAddSigned(res.body[1], p.arg)))
      [] OTHER -> res

\* the output of the future kept in a PendingOperation, from the result of
\* the request it awaits
FutureOutput(p) ==
    LET res == IF p.op = 0 THEN ErrIo("BrokenPipe") ELSE ops[p.op].res IN
    CASE p.kind = "Read" ->
            (IF res.tag = "Ok" THEN res
             ELSE IF res = ErrSftp(Eof) THEN OkPayload(<< >>)
             ELSE IntoIo(res))
      [] p.kind = "Write" ->
            (IF res.tag = "Ok" THEN OkNum(ops[p.op].length) ELSE res)
      [] p.kind = "Seek" ->
            (IF res.tag # "Ok" THEN IntoIo(res)
             ELSE IF res.body = << >> THEN ErrIo("Unsupported")
             ELSE IF CheckedAddSigned(res.body[1], p.arg) = None THEN ErrIo("InvalidData")
             ELSE OkNum(CheckedAddSigned(res.body[1], p.arg)))
      [] OTHER -> res

\* PendingOperation::poll: not ready while the request has no reply; else the
\* kind of the operation and its result (the caller resets pending to None)
PollOp(f) ==
    LET p == file[f].pending IN
    IF p.kind = "None" THEN [ready |-> TRUE, kind |-> "None", res |-> NoValue]
    ELSE IF p.op # 0 /\ ops[p.op].state = "sent"
         THEN [ready |-> FALSE, kind |-> p.kind, res |-> NoValue]
    ELSE [ready |-> TRUE, kind |-> p.kind, res |-> FutureOutput(p)]

\* the handler call of f returns ret, with the fields of f set as given
Returns(f, call, ret, fields) ==
    file' = [file EXCEPT ![f] = [fields EXCEPT !.call = call, !.ret = ret]]

\* a handler has started the operation kind: it keeps the future and polls it
\* at once; a future that holds an error is ready at once
Started(f, call, kind, offset, length, arg, convert) ==
    /\ CanRequest(f)
    /\ ops' = Requested(f, call, kind, offset, length)
    /\ LET p == [kind |-> kind, op |-> RequestIndex(f), arg |-> arg] IN
       Returns(f, call,
               IF p.op = 0
               THEN (IF convert THEN IntoIo(ErrIo("BrokenPipe")) ELSE ErrIo("BrokenPipe"))
               ELSE RetPending,
               [file[f] EXCEPT !.pending = p])

\* (mutant) a Read or a Write carries all of the buffer
ChunkLenAll(n) == n

\* buf.remaining().min(32768), buf.len().min(32768)
ChunkLen(n) == Min(n, MaxChunk)

\* File::poll_read(buf) with n = buf.remaining()
PollRead(f, n) ==
    /\ Usable(f)
    /\ LET r == PollOp(f)
           me == file[f]
           idle == [me EXCEPT !.pending = NoPending]
       IN IF ~r.ready
          THEN Returns(f, "poll_read", RetPending, me) /\ UNCHANGED ops
          ELSE IF r.kind = "Read"
          THEN /\ UNCHANGED ops
               /\ IF r.res.tag # "Ok" THEN Returns(f, "poll_read", r.res, idle)
                  ELSE IF r.res.body = << >> THEN Returns(f, "poll_read", r.res, idle)
                  ELSE IF Len(r.res.body) > n THEN Returns(f, "poll_read", Panic, idle)
                  ELSE \E a \in Advanced(me.offset, Len(r.res.body)) :
                          IF a.panic THEN Returns(f, "poll_read", Panic, idle)
                          ELSE Returns(f, "poll_read", r.res, [idle EXCEPT !.offset = a.offset])
          ELSE IF me.handle = 0
          THEN Returns(f, "poll_read", ErrIo("BrokenPipe"), idle) /\ UNCHANGED ops
          ELSE Started(f, "poll_read", "Read", me.offset, ChunkLen(n), 0, FALSE)
    /\ UNCHANGED next_arc
    /\ OnlyFiles

\* File::poll_write(buf) with n = buf.len()
PollWrite(f, n) ==
    /\ Usable(f)
    /\ LET r == PollOp(f)
           me == file[f]
           idle == [me EXCEPT !.pending = NoPending]
       IN IF ~r.ready
          THEN Returns(f, "poll_write", RetPending, me) /\ UNCHANGED ops
          ELSE IF r.kind = "Write"
          THEN /\ UNCHANGED ops
               /\ IF r.res.tag = "Ok"
                  THEN \E a \in Advanced(me.offset, r.res.code) :
                          IF a.panic THEN Returns(f, "poll_write", Panic, idle)
                          ELSE Returns(f, "poll_write", r.res, [idle EXCEPT !.offset = a.offset])
                  ELSE Returns(f, "poll_write", IntoIo(r.res), idle)
          ELSE IF me.handle = 0
          THEN Returns(f, "poll_write", ErrIo("BrokenPipe"), idle) /\ UNCHANGED ops
          ELSE Started(f, "poll_write", "Write", me.offset, ChunkLen(n), 0, TRUE)
    /\ UNCHANGED next_arc
    /\ OnlyFiles

\* File::poll_flush
PollFlush(f) ==
    /\ Usable(f)
    /\ LET r == PollOp(f)
           me == file[f]
           idle == [me EXCEPT !.pending = NoPending]
       IN IF ~r.ready THEN Returns(f, "poll_flush", RetPending, me)
          ELSE IF r.kind = "Write" /\ r.res.tag = "Ok"
          THEN \E a \in Advanced(me.offset, r.res.code) :
                  IF a.panic THEN Returns(f, "poll_flush", Panic, idle)
                  ELSE Returns(f, "poll_flush", OkPayload(<< >>), [idle EXCEPT !.offset = a.offset])
          ELSE IF r.kind = "Write" THEN Returns(f, "poll_flush", IntoIo(r.res), idle)
          ELSE Returns(f, "poll_flush", OkPayload(<< >>), idle)
    /\ UNCHANGED <<ops, next_arc>>
    /\ OnlyFiles

\* File::poll_shutdown
PollShutdown(f) ==
    /\ Usable(f)
    /\ LET r == PollOp(f)
           me == file[f]
           idle == [me EXCEPT !.pending = NoPending]
       IN IF ~r.ready
          THEN Returns(f, "poll_shutdown", RetPending, me) /\ UNCHANGED ops
          ELSE IF r.kind = "Close"
          THEN Returns(f, "poll_shutdown", IntoIo(r.res), idle) /\ UNCHANGED ops
          ELSE IF me.handle = 0
          THEN Returns(f, "poll_shutdown", OkPayload(<< >>), idle) /\ UNCHANGED ops
          ELSE Started(f, "poll_shutdown", "Close", 0, 0, 0, TRUE)
    /\ UNCHANGED next_arc
    /\ OnlyFiles

\* the positions start_seek is called with
SeekPositions ==
    {[from |-> "Start", n |-> 0], [from |-> "Start", n |-> 2],
     [from |-> "Current", n |-> 1], [from |-> "Current", n |-> -1],
     [from |-> "End", n |-> 0], [from |-> "End", n |-> -1], [from |-> "End", n |-> -3],
     [from |-> "End", n |-> 1]}

\* (mutant) start_seek refuses only while a Close is pending
SeekBlockedByClose(me) == me.pending.kind = "Close"

\* `if let PendingOperation::None = self.pending` of start_seek, negated
SeekBlocked(me) == me.pending.kind # "None"

\* File::start_seek(position)
StartSeek(f, pos) ==
    /\ Usable(f)
    /\ LET me == file[f] IN
       IF SeekBlocked(me)
       THEN Returns(f, "start_seek", ErrIo("WouldBlock"), me) /\ UNCHANGED ops
       ELSE IF pos.from = "Start"
       THEN Returns(f, "start_seek", OkPayload(<< >>), [me EXCEPT !.offset = pos.n])
            /\ UNCHANGED ops
       ELSE IF pos.from = "Current"
       THEN /\ UNCHANGED ops
            /\ me.offset + pos.n <= MaxOffset \/ me.offset + pos.n > U64Max
            /\ IF CheckedAddSigned(me.offset, pos.n) = None
               THEN Returns(f, "start_seek", ErrIo("InvalidData"), me)
               ELSE Returns(f, "start_seek", OkPayload(<< >>),
                            [me EXCEPT !.offset = me.offset + pos.n])
       ELSE IF me.handle = 0
       THEN Returns(f, "start_seek", OkPayload(<< >>),
                    [me EXCEPT !.pending = [kind |-> "Seek", op |-> 0, arg |-> pos.n]])
            /\ UNCHANGED ops
       ELSE /\ CanRequest(f)
            /\ ops' = Requested(f, "start_seek", "FStat", 0, 0)
            /\ Returns(f, "start_seek", OkPayload(<< >>),
                       [me EXCEPT !.pending =
                          [kind |-> "Seek", op |-> RequestIndex(f), arg |-> pos.n]])
    /\ UNCHANGED next_arc
    /\ OnlyFiles

\* File::poll_complete
PollComplete(f) ==
    /\ Usable(f)
    /\ LET r == PollOp(f)
           me == file[f]
           idle == [me EXCEPT !.pending = NoPending]
       IN IF ~r.ready THEN Returns(f, "poll_complete", RetPending, me)
          ELSE IF r.kind = "Seek" /\ r.res.tag = "Ok"
          THEN Returns(f, "poll_complete", r.res, [idle EXCEPT !.offset = r.res.code])
          ELSE IF r.kind = "Seek" THEN Returns(f, "poll_complete", r.res, idle)
          ELSE Returns(f, "poll_complete", OkNum(me.offset), idle)
    /\ UNCHANGED <<ops, next_arc>>
    /\ OnlyFiles

\* impl Clone for File: g is the clone of f
CloneFile(f, g) ==
    /\ Usable(f)
    /\ file[g].st = "absent"
    /\ file' = [file EXCEPT ![g] =
                  [FileNew EXCEPT !.client = file[f].client, !.handle = file[f].handle,
                                  !.offset = file[f].offset]]
    /\ UNCHANGED <<ops, next_arc>>
    /\ OnlyFiles

\* FileClosing::new sends Close: the file has a handle and holds its last reference
ClosesHandle(f) == LastHolder(f)

\* FileClosing::new from File::close: the future borrows the file
Close(f) ==
    /\ Usable(f)
    /\ LET me == [file[f] EXCEPT !.pending = NoPending, !.handle = 0] IN
       IF ClosesHandle(f)
       THEN /\ CanRequest(f)
            /\ ops' = Requested(f, "close", "Close", 0, 0)
            /\ Returns(f, "close", NoValue,
                       [me EXCEPT !.closing =
                          [state |-> "Closing", op |-> RequestIndex(f), ready |-> FALSE]])
       ELSE /\ UNCHANGED ops
            /\ Returns(f, "close", NoValue,
                       [me EXCEPT !.client = "stopped",
                                  !.closing = [state |-> "Closed", op |-> 0, ready |-> FALSE]])
    /\ UNCHANGED next_arc
    /\ OnlyFiles

\* FileClosing::poll
PollClosing(f) ==
    /\ file[f].st = "live"
    /\ file[f].closing.state # "none"
    /\ ~file[f].closing.ready
    /\ LET me == file[f]
           c == me.closing
           res == IF c.op = 0 THEN ErrIo("BrokenPipe") ELSE ops[c.op].res
       IN IF c.state = "Closed"
          THEN Returns(f, "close", OkPayload(<< >>), [me EXCEPT !.closing.ready = TRUE])
          ELSE IF c.op # 0 /\ ops[c.op].state = "sent"
          THEN Returns(f, "close", RetPending, me)
          ELSE IF res.tag # "Ok"
          THEN Returns(f, "close", res, [me EXCEPT !.closing.ready = TRUE])
          ELSE Returns(f, "close", OkPayload(<< >>),
                       [me EXCEPT !.client = "stopped",
                                  !.closing = [state |-> "Closed", op |-> c.op, ready |-> TRUE]])
    /\ UNCHANGED <<ops, next_arc>>
    /\ OnlyFiles

\* (mutant) Drop for FileClosing gives the File a handle back in every state
DropClosingRestores(f) ==
    /\ file[f].st = "live"
    /\ file[f].closing.state # "none"
    /\ file' = [file EXCEPT ![f].handle = next_arc, ![f].closing = NoClosing]
    /\ next_arc' = next_arc + 1
    /\ UNCHANGED ops
    /\ OnlyFiles

\* impl Drop for FileClosing: the future is dropped, whether it was ready or not
DropClosing(f) ==
    /\ file[f].st = "live"
    /\ file[f].closing.state # "none"
    /\ IF file[f].closing.state = "Closing"
       THEN /\ file' = [file EXCEPT ![f].handle = next_arc, ![f].closing = NoClosing]
            /\ next_arc' = next_arc + 1
       ELSE /\ file' = [file EXCEPT ![f].closing = NoClosing]
            /\ UNCHANGED next_arc
    /\ UNCHANGED ops
    /\ OnlyFiles

\* impl Drop for File: FileClosing::new(self).forget()
DropFile(f) ==
    /\ Usable(f)
    /\ IF ClosesHandle(f)
       THEN CanRequest(f) /\ ops' = Requested(f, "drop", "Close", 0, 0)
       ELSE UNCHANGED ops
    /\ file' = [file EXCEPT ![f] =
                  [file[f] EXCEPT !.st = "dropped", !.client = "stopped", !.handle = 0,
                                  !.pending = NoPending, !.call = "drop", !.ret = NoValue]]
    /\ UNCHANGED next_arc
    /\ OnlyFiles

\* ------------------------------------------------------------------------
\* Dir (client/dir): the entry stream and close
\* ------------------------------------------------------------------------
\* The sources hold two definitions of Dir::close and of Drop for Dir: the one
\* of dir/mod.rs, whose future owns the client and does not borrow the Dir,
\* and the one of dir/close.rs (DirClosing). dir.build says which one the Dir
\* was built with.
Builds == {"mod.rs", "close.rs"}

\* the calls on the Dir leave the rest alone
OnlyDir ==
    /\ UNCHANGED <<narrow, composite, file, next_arc, write_all, codec>>
    /\ UNCHANGED <<alive, client_commands, request_processor, stopping, handshake>>
    /\ UNCHANGED muxVars
    /\ UNCHANGED streamVars
    /\ UNCHANGED reqVars
    /\ UNCHANGED histVars

\* the Dir can be used: it was not dropped and no DirClosing borrows it (the
\* future of the close of dir/mod.rs borrows nothing)
DirUsable == dir.st = "live" /\ dir.closing.state \in {"none", "Inline", "InlineNone"}

\* Poll::Ready(Some(Ok(entry)))
Item(e) == [tag |-> "Item", code |-> e, body |-> << >>, kind |-> ""]
\* Poll::Ready(None)
EndOfStream == [tag |-> "End", code |-> 0, body |-> << >>, kind |-> ""]

\* (mutant) the batch is kept in the server's order and popped from its end
NotReversed(s) == s

\* Vec::reverse
Reverse(s) == [i \in 1..Len(s) |-> s[Len(s) + 1 - i]]

\* Vec::pop: the last element, and what is left
Popped(s) == s[Len(s)]
AfterPop(s) == SubSeq(s, 1, Len(s) - 1)

\* (mutant) poll_next keeps the buffer Some(empty) after the end or an error
RestOfRestartable(res) ==
    IF res.tag = "Ok" /\ res.body # << >>
    THEN [some |-> TRUE, entries |-> AfterPop(Reverse(res.body))]
    ELSE [some |-> TRUE, entries |-> << >>]

\* poll_next, the buffer after the result of a ReadDir: the batch reversed less
\* its last entry, None when there is no entry
RestOf(res) ==
    IF res.tag = "Ok" /\ res.body # << >>
    THEN [some |-> TRUE, entries |-> AfterPop(Reverse(res.body))]
    ELSE NoBuffer

\* poll_next, what it returns for the result of a ReadDir
NextItem(res) ==
    IF res.tag = "Ok"
    THEN (IF res.body # << >> THEN Item(Popped(Reverse(res.body))) ELSE ErrIo("UnexpectedEof"))
    ELSE IF res = ErrSftp(Eof) THEN EndOfStream
    ELSE res

\* a call on the Dir returns ret
DirReturns(call, ret, fields) ==
    dir' = [fields EXCEPT !.call = call, !.ret = ret]

\* poll_next returns Poll::Ready(ret)
DirYields(ret, fields) ==
    dir' = [fields EXCEPT !.call = "poll_next", !.ret = ret, !.yielded = Append(@, ret)]

\* impl Stream for Dir: poll_next
PollNext ==
    /\ DirUsable
    /\ Len(dir.yielded) < MaxYield
    /\ LET me == dir
           done == [me EXCEPT !.pending = 0]
       IN IF ~me.buffer.some
          THEN DirYields(EndOfStream, me) /\ UNCHANGED ops
          ELSE IF me.buffer.entries # << >>
          THEN /\ DirYields(Item(Popped(me.buffer.entries)),
                            [me EXCEPT !.buffer.entries = AfterPop(me.buffer.entries)])
               /\ UNCHANGED ops
          ELSE IF me.pending # 0
          THEN /\ UNCHANGED ops
               /\ IF ops[me.pending].state = "sent"
                  THEN DirReturns("poll_next", RetPending, me)
                  ELSE DirYields(NextItem(ops[me.pending].res),
                                 [done EXCEPT !.buffer = RestOf(ops[me.pending].res)])
          ELSE IF ~me.handle
          THEN DirYields(ErrIo("BrokenPipe"), [me EXCEPT !.buffer = NoBuffer]) /\ UNCHANGED ops
          ELSE IF me.client # "live"
          THEN /\ DirYields(NextItem(ErrSftp(Failure)), [done EXCEPT !.buffer = RestOf(ErrSftp(Failure))])
               /\ UNCHANGED ops
          ELSE /\ Len(ops) < MaxDirOps
               /\ ops' = IssueAt(ops, 0, "poll_next", "ReadDir", 0, 0)
               /\ DirReturns("poll_next", RetPending, [me EXCEPT !.pending = Len(ops) + 1])
    /\ OnlyDir

\* DirClosing::new from Dir::close (dir/close.rs): the future borrows the Dir
DirClose ==
    /\ DirUsable
    /\ dir.build = "close.rs"
    /\ LET me == [dir EXCEPT !.buffer = NoBuffer, !.pending = 0, !.handle = FALSE] IN
       IF dir.handle /\ dir.client = "live"
       THEN /\ Len(ops) < MaxDirOps
            /\ ops' = IssueAt(ops, 0, "close", "Close", 0, 0)
            /\ DirReturns("close", NoValue,
                          [me EXCEPT !.closing = [state |-> "Closing", op |-> Len(ops) + 1, ready |-> FALSE]])
       ELSE IF dir.handle
       THEN /\ UNCHANGED ops
            /\ DirReturns("close", NoValue,
                          [me EXCEPT !.closing = [state |-> "Closing", op |-> 0, ready |-> FALSE]])
       ELSE /\ UNCHANGED ops
            /\ DirReturns("close", NoValue,
                          [me EXCEPT !.client = "stopped",
                                     !.closing = [state |-> "Closed", op |-> 0, ready |-> FALSE]])
    /\ OnlyDir

\* DirClosing::poll
DirPollClosing ==
    /\ dir.st = "live"
    /\ dir.closing.state \in {"Closing", "Closed"}
    /\ ~dir.closing.ready
    /\ LET me == dir
           c == me.closing
           res == IF c.op = 0 THEN ErrSftp(Failure) ELSE ops[c.op].res
       IN IF c.state = "Closed"
          THEN DirReturns("close", OkPayload(<< >>), [me EXCEPT !.closing.ready = TRUE])
          ELSE IF c.op # 0 /\ ops[c.op].state = "sent"
          THEN DirReturns("close", RetPending, me)
          ELSE IF res.tag # "Ok"
          THEN DirReturns("close", res, [me EXCEPT !.closing.ready = TRUE])
          ELSE DirReturns("close", OkPayload(<< >>),
                          [me EXCEPT !.client = "stopped",
                                     !.closing = [state |-> "Closed", op |-> c.op, ready |-> TRUE]])
    /\ UNCHANGED ops
    /\ OnlyDir

\* impl Drop for DirClosing: the future is dropped, whether it was ready or not
DirDropClosing ==
    /\ dir.st = "live"
    /\ dir.closing.state \in {"Closing", "Closed"}
    /\ dir' = [dir EXCEPT !.handle = (dir.closing.state = "Closing"), !.closing = NoClosing]
    /\ UNCHANGED ops
    /\ OnlyDir

\* Dir::close of dir/mod.rs: the handle is taken and Close is sent, the client
\* moves into the future; one such future at a time
DirCloseInline ==
    /\ DirUsable
    /\ dir.build = "mod.rs"
    /\ dir.closing.state = "none"
    /\ LET me == [dir EXCEPT !.handle = FALSE, !.client = "stopped"] IN
       IF dir.handle /\ dir.client = "live"
       THEN /\ Len(ops) < MaxDirOps
            /\ ops' = IssueAt(ops, 0, "close", "Close", 0, 0)
            /\ DirReturns("close", NoValue,
                          [me EXCEPT !.closing = [state |-> "Inline", op |-> Len(ops) + 1, ready |-> FALSE]])
       ELSE IF dir.handle
       THEN /\ UNCHANGED ops
            /\ DirReturns("close", NoValue,
                          [me EXCEPT !.closing = [state |-> "Inline", op |-> 0, ready |-> FALSE]])
       ELSE /\ UNCHANGED ops
            /\ DirReturns("close", NoValue,
                          [me EXCEPT !.closing = [state |-> "InlineNone", op |-> 0, ready |-> FALSE]])
    /\ OnlyDir

\* the future of Dir::close of dir/mod.rs is awaited
DirPollInline ==
    /\ dir.st = "live"
    /\ dir.closing.state \in {"Inline", "InlineNone"}
    /\ LET me == dir
           c == me.closing
           res == IF c.op = 0 THEN ErrSftp(Failure) ELSE ops[c.op].res
       IN IF c.state = "InlineNone"
          THEN DirReturns("close", OkPayload(<< >>), [me EXCEPT !.closing = NoClosing])
          ELSE IF c.op # 0 /\ ops[c.op].state = "sent"
          THEN DirReturns("close", RetPending, me)
          ELSE DirReturns("close", res, [me EXCEPT !.closing = NoClosing])
    /\ UNCHANGED ops
    /\ OnlyDir

\* impl Drop for Dir: DirClosing::new(self).forget() in dir/close.rs,
\* block_on(self.close()) in dir/mod.rs, which returns when Close is answered
DropDir ==
    /\ DirUsable
    /\ LET sends == dir.handle /\ dir.client = "live"
           me == [dir EXCEPT !.handle = FALSE, !.client = "stopped", !.call = "drop", !.ret = NoValue]
       IN /\ IF sends
             THEN Len(ops) < MaxDirOps /\ ops' = IssueAt(ops, 0, "drop", "Close", 0, 0)
             ELSE UNCHANGED ops
          /\ IF dir.build = "close.rs"
             THEN dir' = [me EXCEPT !.st = "dropped", !.buffer = NoBuffer, !.pending = 0]
             ELSE IF sends
             THEN dir' = [me EXCEPT !.st = "dropping",
                                    !.closing = [state |-> "Drop", op |-> Len(ops) + 1, ready |-> FALSE]]
             ELSE dir' = [me EXCEPT !.st = "dropped", !.closing = NoClosing]
    /\ OnlyDir

\* block_on(self.close()) of Drop for Dir returns
DropDirDone ==
    /\ dir.st = "dropping"
    /\ ops[dir.closing.op].state = "answered"
    /\ dir' = [dir EXCEPT !.st = "dropped", !.closing = NoClosing]
    /\ UNCHANGED ops
    /\ OnlyDir

\* ------------------------------------------------------------------------
\* Encoding and decoding a value
\* ------------------------------------------------------------------------

\* the values that are encoded: every combination of present fields of
\* Attrs, and the values of the encode_success tests with numbers that fit
SomeSizes == {<< >>, <<0>>, <<66051>>}
SomeOwners == {<< >>, <<1000, 100>>}
SomePerms == {<< >>, <<30258>>}
SomeTimes == {<< >>, <<16909060, 84281096>>}
AttrsValues == [size : SomeSizes, owner : SomeOwners, perms : SomePerms, time : SomeTimes]
StatusValues == {[code |-> Eof, error |-> <<101, 111, 102>>, language |-> <<101, 110>>]}
KeyBytes == <<107, 101, 121>>
ValueBytes == <<118, 97, 108, 117, 101>>
ExtensionsValues ==
    { [version |-> v, extensions |-> m] :
        v \in {0, ProtocolVersion},
        m \in { << >>, << <<KeyBytes, ValueBytes>> >>,
                << <<KeyBytes, ValueBytes>>, <<ValueBytes, KeyBytes>> >> } }
ExtendedValues == [request : {<< >>, KeyBytes}, data : {<< >>, ValueBytes}]

CodecValues ==
    ({"Attrs"} \X AttrsValues) \cup ({"Status"} \X StatusValues)
    \cup ({"Init", "Version"} \X ExtensionsValues) \cup ({"Extended"} \X ExtendedValues)

\* bits of the flags word that AttrFlags does not define
ForeignBits == {16, 256, 1073741824}

\* the calls of the codec leave the rest alone
OnlyCodec ==
    /\ UNCHANGED <<narrow, ops, composite, file, next_arc, write_all, dir>>
    /\ UNCHANGED <<alive, client_commands, request_processor, stopping, handshake>>
    /\ UNCHANGED muxVars
    /\ UNCHANGED streamVars
    /\ UNCHANGED reqVars
    /\ UNCHANGED histVars

\* the value is encoded; the bytes are its golden encoding
CodecEncode ==
    /\ codec.pc = "value"
    /\ codec' = [codec EXCEPT !.pc = "encoded",
                              !.golden = EncodeValue(codec.kind, codec.value),
                              !.bytes = EncodeValue(codec.kind, codec.value),
                              !.input = "whole"]
    /\ OnlyCodec

\* the frame is cut: only its first i bytes are there
CodecTruncate(i) ==
    /\ codec.pc = "encoded"
    /\ i < Len(codec.bytes)
    /\ codec' = [codec EXCEPT !.pc = "altered", !.bytes = Take(codec.bytes, i), !.input = "truncated"]
    /\ OnlyCodec

\* a peer sets a bit in the flags word of an Attrs that AttrFlags does not
\* define
CodecForeignFlag(bit) ==
    /\ codec.pc = "encoded"
    /\ codec.kind = "Attrs"
    /\ codec' = [codec EXCEPT !.pc = "altered",
                              !.bytes = U32(GetU32(codec.bytes) + bit) \o Drop(codec.bytes, U32Len),
                              !.input = "foreign"]
    /\ OnlyCodec

\* the bytes are decoded
CodecDecode ==
    /\ codec.pc \in {"encoded", "altered"}
    /\ codec' = [codec EXCEPT !.pc = "decoded", !.result = DecodeValue(codec.kind, codec.bytes)]
    /\ OnlyCodec

\* ------------------------------------------------------------------------
\* SftpClient::with_channel (client/mod.rs): the handshake
\* ------------------------------------------------------------------------
\* before with_channel is called: no client, no multiplexer task
InitHandshake ==
    /\ CursorInit
    /\ onflight = {}
    /\ next_id = 0
    /\ commands = << >>
    /\ rx_closed = FALSE
    /\ response_size = None
    /\ response_buffer = << >>
    /\ in_loop = FALSE
    /\ task = "unspawned"
    /\ stream_out = << >>
    /\ stream_in = << >>
    /\ stream_eof = FALSE
    /\ sent = << >>
    /\ nerr = 0
    /\ nreq = 0
    /\ fut = [r \in Requests |-> "none"]
    /\ sink = [r \in Requests |-> "none"]
    /\ val = [r \in Requests |-> NoValue]
    /\ out = [r \in Requests |-> NoValue]
    /\ via = [r \in Requests |-> 0]
    /\ alive = [h \in Handles |-> FALSE]
    /\ client_commands = [h \in Handles |-> FALSE]
    /\ request_processor = [h \in Handles |-> FALSE]
    /\ stopping = [h \in Handles |-> "none"]
    /\ handshake = [phase |-> "new", init |-> << >>, reply |-> << >>, err |-> NoValue, events |-> 0]
    /\ idOf = [r \in Requests |-> 0]
    /\ dispatched = << >>
    /\ log = LogInit

\* with_channel returns Err(err): nothing is spawned
HandshakeFails(err, data) ==
    /\ handshake' = [handshake EXCEPT !.phase = "failed", !.err = err, !.reply = data]
    /\ UNCHANGED <<alive, client_commands, request_processor, stopping, cursorVars>>
    /\ UNCHANGED muxVars

\* the outcomes of a call on the channel: Ok, Err(russh::Error::IO), another Err
ChannelOutcomes == {"Ok", "Io", "Other"}

\* the io::Error made of a russh error
ChannelError(o) == IF o = "Io" THEN ErrIo("ConnectionReset") ELSE ErrIo("Other")

\* channel.request_subsystem(false, "sftp")
RequestSubsystem(o) ==
    /\ handshake.phase = "new"
    /\ IF o = "Ok"
       THEN /\ handshake' = [handshake EXCEPT !.phase = "subsystem"]
            /\ UNCHANGED <<alive, client_commands, request_processor, stopping, cursorVars>>
            /\ UNCHANGED muxVars
       ELSE HandshakeFails(ChannelError(o), << >>)
    /\ UNCHANGED streamVars
    /\ UNCHANGED reqVars
    /\ UNCHANGED histVars

\* Message::Init { version: 3, extensions: empty } is encoded and written
SendInit(o) ==
    /\ handshake.phase = "subsystem"
    /\ IF o = "Ok"
       THEN /\ handshake' = [handshake EXCEPT !.phase = "wait", !.init = EncodeInit(ProtocolVersion)]
            /\ UNCHANGED <<alive, client_commands, request_processor, stopping, cursorVars>>
            /\ UNCHANGED muxVars
       ELSE HandshakeFails(ChannelError(o), << >>)
    /\ UNCHANGED streamVars
    /\ UNCHANGED reqVars
    /\ UNCHANGED histVars

\* what the server may answer: Version 3, other versions, a message that is
\* not a Version, bytes that are no frame
HandshakeReplies ==
    {EncodeVersion(v) : v \in {ProtocolVersion - 1, ProtocolVersion, ProtocolVersion + 1}}
        \cup {Encode(ReplyType, 0, << >>), U32(1) \o <<VersionType>>}

\* channel.wait() returned Some(ChannelMsg::Data { data })
WaitData(data) ==
    /\ handshake.phase = "wait"
    /\ LET d == Decode(data)
       IN IF d.kind = "Version" /\ d.version = ProtocolVersion
          THEN /\ handshake' = [handshake EXCEPT !.phase = "established", !.reply = data]
               /\ task' = "running"
               /\ alive' = [alive EXCEPT ![1] = TRUE]
               /\ client_commands' = [client_commands EXCEPT ![1] = TRUE]
               /\ request_processor' = [request_processor EXCEPT ![1] = TRUE]
               /\ UNCHANGED <<stopping, cursorVars>>
               /\ UNCHANGED <<onflight, next_id, commands, rx_closed, response_size,
                              response_buffer, in_loop>>
          ELSE HandshakeFails(ErrIo("Other"), data)
    /\ UNCHANGED streamVars
    /\ UNCHANGED reqVars
    /\ UNCHANGED histVars

\* channel.wait() returned another event: with_channel waits again
WaitOther ==
    /\ handshake.phase = "wait"
    /\ handshake.events < MaxEvents
    /\ handshake' = [handshake EXCEPT !.events = @ + 1]
    /\ UNCHANGED <<alive, client_commands, request_processor, stopping, cursorVars>>
    /\ UNCHANGED muxVars
    /\ UNCHANGED streamVars
    /\ UNCHANGED reqVars
    /\ UNCHANGED histVars

\* channel.wait() returned None: the channel was closed
WaitClosed ==
    /\ handshake.phase = "wait"
    /\ HandshakeFails(ErrIo("InvalidData"), << >>)
    /\ UNCHANGED streamVars
    /\ UNCHANGED reqVars
    /\ UNCHANGED histVars

\* the server answers a request of an established session
ServerReply(id) ==
    /\ handshake.phase = "established"
    /\ ServerSend(id, "Reply", <<U32Len + 2, Len(Encode(ReplyType, id, <<0>>)) - U32Len - 2>>)

\* ------------------------------------------------------------------------
\* Specifications
\* ------------------------------------------------------------------------
\* the steps of the task running Receiver::run
Multiplexer ==
    \/ \E w \in WriteOutcomes : RecvRequest(w)
    \/ CommandsClosed
    \/ ReadSize
    \/ EmitResponse
    \/ PollReadData
    \/ PollReadPending
    \/ ShutdownDone

\* the length of the frames that carry an id
FrameLen == U32Len + 1 + U32Len + 1

\* Spec: the multiplexer between its callers and a server that answers with any
\* frame, for any ID, in any order, over a stream that does not fail.
Next ==
    \/ Multiplexer
    \/ \E id \in ServerIds, kind \in FrameKinds :
          ServerSend(id, kind, IF kind = "Short" THEN <<U32Len + 1>> ELSE <<FrameLen>>)
    \/ \E id \in ServerIds : ServerSend(id, "Reply", <<U32Len + 2, FrameLen - U32Len - 2>>)
    \/ \E input \in ReqInputs : RequestWith(1, input)
    \/ \E r \in Requests : PollFuture(r)
    \/ \E r \in Requests : DropFuture(r)
    \/ DropClient(1)

Spec == Init /\ [][Next]_vars

\* SpecStream: the multiplexer over a stream that delivers replies in pieces,
\* reports errors and ends, with one client handle that is stopped or dropped.
NextStream ==
    \/ Multiplexer
    \/ PollReadEof
    \/ \E kind \in ErrKinds : PollReadError(kind)
    \/ \E id \in Requests : ServerSend(id, "Reply", <<FrameLen>>)
    \/ \E id \in Requests : ServerSend(id, "Reply", <<U32Len + 2, 2, FrameLen - U32Len - 4>>)
    \/ \E cut \in CutLens : ServerClose(cut)
    \/ RequestWith(1, "Msg")
    \/ \E r \in Requests : PollFuture(r)
    \/ \E r \in Requests : DropFuture(r)
    \/ Stop(1)
    \/ StopReady(1)
    \/ StopDrop(1)
    \/ DropClient(1)

SpecStream == Init /\ [][NextStream]_vars

\* SpecStop: the multiplexer over a stream that does not fail, with client
\* handles that are cloned, stopped (the stop future awaited or dropped) and
\* dropped in any order.
NextStop ==
    \/ Multiplexer
    \/ \E id \in Requests : ServerSend(id, "Reply", <<U32Len + 2, FrameLen - U32Len - 2>>)
    \/ \E h \in Handles : RequestWith(h, "Msg")
    \/ \E r \in Requests : PollFuture(r)
    \/ \E h, g \in Handles : CloneClient(h, g)
    \/ \E h \in Handles : Stop(h)
    \/ \E h \in Handles : StopReady(h)
    \/ \E h \in Handles : StopDrop(h)
    \/ \E h \in Handles : DropClient(h)

SpecStop == Init /\ [][NextStop]_vars

\* SpecHandshake: with_channel from the start, then the session it has
\* established.
NextHandshake ==
    \/ \E o \in ChannelOutcomes : RequestSubsystem(o)
    \/ \E o \in ChannelOutcomes : SendInit(o)
    \/ \E data \in HandshakeReplies : WaitData(data)
    \/ WaitOther
    \/ WaitClosed
    \/ Multiplexer
    \/ \E id \in Requests : ServerReply(id)
    \/ RequestWith(1, "Msg")
    \/ \E r \in Requests : PollFuture(r)
    \/ DropClient(1)

SpecHandshake == InitHandshake /\ [][NextHandshake]_vars

\* SpecNarrow: the callback of each method applied to each reply.
NextNarrow == Narrow

SpecNarrow == InitNarrow /\ [][NextNarrow]_vars

\* SpecReaddir: SftpClient::readdir against a server that answers each request
\* with a reply of its kind or an error status.
NextReaddir ==
    \/ ReaddirStart
    \/ ReaddirStep
    \/ \E i \in 1..MaxOps, msg \in ReplyMessages \cup UNION {ServerAnswers(k, j) : k \in RequestKinds, j \in 1..MaxOps} :
          AnswerOp(i, msg)

SpecReaddir == Init /\ [][NextReaddir]_vars

\* File::new: one File over a handle that SftpClient::open returned
InitFile ==
    /\ SessionInit
    /\ narrow = NarrowIdle
    /\ ops = << >>
    /\ composite = CompositeIdle
    /\ file = [f \in FileIds |-> IF f = 1 THEN FileNew ELSE FileAbsent]
    /\ next_arc = 2
    /\ write_all = NoWriteAll
    /\ dir = DirAbsent
    /\ codec = CodecIdle

\* SpecFile: the calls on a File and its clones, in any order, against a
\* server that answers each request at any later time.
NextFile ==
    \/ \E f \in FileIds : PollRead(f, 1)
    \/ \E f \in FileIds : PollWrite(f, 1)
    \/ \E f \in FileIds : PollFlush(f)
    \/ \E f \in FileIds : PollShutdown(f)
    \/ \E f \in FileIds, pos \in {p \in SeekPositions : p.n = 0} : StartSeek(f, pos)
    \/ \E f \in FileIds : PollComplete(f)
    \/ \E f, g \in FileIds : CloneFile(f, g)
    \/ \E f \in FileIds : Close(f)
    \/ \E f \in FileIds : PollClosing(f)
    \/ \E f \in FileIds : DropClosing(f)
    \/ \E f \in FileIds : DropFile(f)
    \/ \E i \in 1..MaxFileOps, k \in {"Read", "Write", "FStat", "Close"} :
          \E msg \in ServerAnswers(k, i) : AnswerOp(i, msg)

SpecFile == InitFile /\ [][NextFile]_vars

\* SpecFileIo: reads, writes, seeks, flushes and shutdowns on one File, with
\* buffers of every size and every seek position, against a server that
\* answers each request at any later time.
NextFileIo ==
    \/ \E n \in BufSizes : PollRead(1, n)
    \/ \E n \in BufSizes : PollWrite(1, n)
    \/ PollFlush(1)
    \/ PollShutdown(1)
    \/ \E pos \in SeekPositions : StartSeek(1, pos)
    \/ PollComplete(1)
    \/ \E i \in 1..MaxFileOps, k \in {"Read", "Write", "FStat", "Close"} :
          \E msg \in ServerAnswers(k, i) : AnswerOp(i, msg)

SpecFileIo == InitFile /\ [][NextFileIo]_vars

\* the numbers of bytes the caller writes, and the offsets it starts at
WriteTotals == {1, 2, 32768, 32769, 40000, 49152, 65536, 65537}
WriteStarts == {0, 1, 100}

\* a File at some offset, and a caller that is to write some number of bytes
InitWriteAll ==
    /\ SessionInit
    /\ narrow = NarrowIdle
    /\ ops = << >>
    /\ composite = CompositeIdle
    /\ \E o \in WriteStarts, t \in WriteTotals :
          /\ file = [f \in FileIds |-> IF f = 1 THEN [FileNew EXCEPT !.offset = o] ELSE FileAbsent]
          /\ write_all = [total |-> t, start |-> o]
    /\ next_arc = 2
    /\ dir = DirAbsent
    /\ codec = CodecIdle

\* the bytes that poll_write has accepted
Accepted == file[1].offset - write_all.start

\* the caller's loop: poll_write with what is left of its bytes, until all
\* bytes were accepted or poll_write returns an error
WriteAll ==
    /\ Accepted < write_all.total
    /\ file[1].ret.tag \in {"none", "Pending", "Ok"}
    /\ PollWrite(1, write_all.total - Accepted)

\* SpecWriteAll: a caller writes its bytes through the File; the server
\* acknowledges or refuses each Write at any later time.
NextWriteAll ==
    \/ WriteAll
    \/ \E i \in 1..MaxFileOps, msg \in ServerAnswers("Write", 1) : AnswerOp(i, msg)

SpecWriteAll == InitWriteAll /\ [][NextWriteAll]_vars

\* Dir::new: one Dir over a handle that SftpClient::opendir returned
InitDir ==
    /\ SessionInit
    /\ narrow = NarrowIdle
    /\ ops = << >>
    /\ composite = CompositeIdle
    /\ file = [f \in FileIds |-> FileAbsent]
    /\ next_arc = 1
    /\ write_all = NoWriteAll
    /\ \E b \in Builds : dir = [DirNew EXCEPT !.build = b]
    /\ codec = CodecIdle

\* SpecDir: the calls on a Dir in any order, against a server that answers
\* each request at any later time.
NextDir ==
    \/ PollNext
    \/ DirClose
    \/ DirPollClosing
    \/ DirDropClosing
    \/ DirCloseInline
    \/ DirPollInline
    \/ DropDir
    \/ DropDirDone
    \/ \E i \in 1..MaxDirOps, k \in {"ReadDir", "Close"} :
          \E msg \in ServerAnswers(k, i) : AnswerOp(i, msg)

SpecDir == InitDir /\ [][NextDir]_vars

\* SpecDirIter: a Dir that is only iterated.
NextDirIter ==
    \/ PollNext
    \/ \E i \in 1..MaxDirOps : \E msg \in ServerAnswers("ReadDir", i) : AnswerOp(i, msg)

SpecDirIter == InitDir /\ [][NextDirIter]_vars

\* a value of the catalogue that is to be encoded
InitCodec ==
    /\ SessionInit
    /\ narrow = NarrowIdle
    /\ ops = << >>
    /\ composite = CompositeIdle
    /\ file = [f \in FileIds |-> FileAbsent]
    /\ next_arc = 1
    /\ write_all = NoWriteAll
    /\ dir = DirAbsent
    /\ \E kv \in CodecValues :
          codec = [CodecIdle EXCEPT !.pc = "value", !.kind = kv[1], !.value = kv[2]]

\* SpecCodec: a value is encoded, the bytes are decoded as they are, cut
\* short, or with a foreign bit in the flags of an Attrs.
NextCodec ==
    \/ CodecEncode
    \/ \E i \in 0..MaxCut : CodecTruncate(i)
    \/ \E bit \in ForeignBits : CodecForeignFlag(bit)
    \/ CodecDecode

SpecCodec == InitCodec /\ [][NextCodec]_vars

\* SpecWrite: the multiplexer with writes that take time, between callers
\* that go on enqueuing and a server that goes on answering.
NextWrite ==
    \/ StartWrite
    \/ \E w \in WriteOutcomes : EndWrite(w)
    \/ CommandsClosed
    \/ ReadSize
    \/ EmitResponse
    \/ PollReadData
    \/ PollReadPending
    \/ ShutdownDone
    \/ \E id \in ServerIds : ServerSend(id, "Reply", <<FrameLen>>)
    \/ \E id \in ServerIds : ServerSend(id, "Reply", <<U32Len + 2, FrameLen - U32Len - 2>>)
    \/ RequestWith(1, "Msg")
    \/ \E r \in Requests : PollFuture(r)
    \/ DropClient(1)

SpecWrite == Init /\ [][NextWrite]_vars

\* SpecLive: the multiplexer over a stream that ends or fails, with callers
\* that await every future they were given. The task of the multiplexer is
\* scheduled as long as it can take a step, and so is every caller that
\* awaits a future.
NextLive ==
    \/ Multiplexer
    \/ PollReadEof
    \/ PollReadError("BrokenPipe")
    \/ \E id \in Requests : ServerSend(id, "Reply", <<FrameLen>>)
    \/ \E id \in Requests : ServerSend(id, "Reply", <<U32Len + 2, FrameLen - U32Len - 2>>)
    \/ ServerClose(0)
    \/ RequestWith(1, "Msg")
    \/ \E r \in Requests : PollFuture(r)
    \/ Stop(1)
    \/ StopReady(1)

\* a step of the task that runs Receiver::run
MuxStep == Multiplexer \/ PollReadEof

Fairness ==
    /\ WF_vars(MuxStep)
    /\ \A r \in Requests : WF_vars(PollFuture(r))

SpecLive == Init /\ [][NextLive]_vars /\ Fairness

\* ------------------------------------------------------------------------
\* Properties
\* ------------------------------------------------------------------------
\* the ID of the i-th frame written to the stream: bytes 5..9 of the frame
WireId(i) == GetU32(Drop(stream_out[i], U32Len + 1))

\* the request was put on the command queue
Enqueued(r) == sink[r] # "none"

InQueue(r) == \E i \in 1..Len(commands) : commands[i] = r

\* the multiplexer has taken the request from the queue
Dequeued(r) == idOf[r] # 0

\* its frame was written
Written(r) == Dequeued(r) /\ r \notin log.wfail

\* a frame of the server was handed to its sink
Answered(r) == \E i \in 1..Len(dispatched) : dispatched[i].req = r

\* the position of the request among the requests put on the queue
Rank(r) == Cardinality({q \in Requests : q <= r /\ Enqueued(q)})

NumEnqueued == Cardinality({q \in Requests : Enqueued(q)})

ReqOfId(id) == CHOOSE r \in Requests : idOf[r] = id

\* C1, as stated: once the N requests enqueued before any reply have been
\* taken from the queue, the stream holds N frames with the IDs 1..N in order.
C1_AsStated ==
    (sent = << >> /\ task = "running" /\ commands = << >>)
        => /\ Len(stream_out) = NumEnqueued
           /\ \A i \in 1..Len(stream_out) : WireId(i) = i

\* C1, amended: the k-th command taken from the queue is assigned the ID k,
\* whether or not its frame can be written; the frames written carry the IDs
\* of their commands in increasing order, and when no frame fails to encode or
\* to be written the N frames on the stream carry exactly 1..N.
C1_RequestIds ==
    /\ \A r \in Requests : Dequeued(r) => Enqueued(r) /\ idOf[r] = Rank(r)
    /\ next_id = Cardinality({r \in Requests : Dequeued(r)})
    /\ \A i \in 1..Len(stream_out) : \E r \in Requests : Written(r) /\ idOf[r] = WireId(i)
    /\ \A i, j \in 1..Len(stream_out) : i < j => WireId(i) < WireId(j)
    /\ log.wfail = {} => \A i \in 1..Len(stream_out) : WireId(i) = i
    /\ (log.wfail = {} /\ task = "running" /\ commands = << >>)
          => Len(stream_out) = NumEnqueued

C1_Witness ==
    /\ sent = << >>
    /\ NumEnqueued = 2
    /\ commands = << >>
    /\ Len(stream_out) = 2
    /\ WireId(1) = 1
    /\ WireId(2) = 2

\* C2: every frame handed to a waiter carries the ID written for that waiter's
\* request, a waiter gets at most one frame, what it receives is the reply of
\* that frame, and frames are handed over in the order the server sent them.
C2_Dispatch ==
    /\ \A i \in 1..Len(dispatched) :
          LET e == dispatched[i]
          IN /\ Written(e.req)
             /\ idOf[e.req] = e.id
             /\ e.k \in 1..Len(sent)
             /\ sent[e.k].id = e.id
             /\ e.ok = (sent[e.k].kind = "Reply")
             /\ \A j \in 1..Len(dispatched) :
                   i < j => e.k < dispatched[j].k /\ e.req # dispatched[j].req
    /\ \A r \in Requests :
          (sink[r] = "sent" /\ val[r].tag = "Ok")
             => \E i \in 1..Len(dispatched) :
                   /\ dispatched[i].req = r
                   /\ dispatched[i].ok
                   /\ val[r] = OkMessage(ReplyType, <<dispatched[i].k>>)
    /\ \A r \in Requests :
          (fut[r] = "Polled" /\ out[r].tag = "Ok") => sink[r] = "sent" /\ out[r] = val[r]

\* two requests in flight, answered in reverse order, each got its own reply
C2_Witness ==
    /\ idOf = <<1, 2>>
    /\ Len(sent) = 2
    /\ sent[1] = [id |-> 2, kind |-> "Reply"]
    /\ sent[2] = [id |-> 1, kind |-> "Reply"]
    /\ out[1] = OkMessage(ReplyType, <<2>>)
    /\ out[2] = OkMessage(ReplyType, <<1>>)

\* C3: dropping a pending future changes neither the in-flight table, nor the
\* ID counter, nor the queue; the ID of a request is never given to another
\* request; the entry of a dropped future stays until a frame with its ID
\* arrives, and that frame removes the entry, is handed to nobody and leaves
\* every other entry and every other waiter as they were.
C3_State ==
    /\ \A r, q \in Requests : (r # q /\ Dequeued(r) /\ Dequeued(q)) => idOf[r] # idOf[q]
    /\ \A r \in Requests : idOf[r] <= next_id
    /\ \A r \in Requests :
          (fut[r] = "Dropped" /\ Written(r))
             => \/ <<idOf[r], r>> \in onflight /\ sink[r] = "open"
                \/ <<idOf[r], r>> \notin onflight /\ Answered(r) /\ sink[r] \in {"gone", "sent"}

C3_Step ==
    /\ \A r \in Requests :
          (fut[r] = "Pending" /\ fut'[r] = "Dropped")
             => UNCHANGED <<onflight, next_id, commands, sink, val, idOf>>
    /\ \A r \in Requests : Dequeued(r) => idOf'[r] = idOf[r]
    /\ \A p \in onflight :
          (fut[p[2]] = "Dropped" /\ p \notin onflight')
             => /\ onflight' = onflight \ {p}
                /\ sink'[p[2]] = "gone"
                /\ val'[p[2]] = val[p[2]]
                /\ task' = "running"
                /\ \A q \in Requests \ {p[2]} :
                      sink'[q] = sink[q] /\ val'[q] = val[q] /\ fut'[q] = fut[q] /\ out'[q] = out[q]

C3_Cancel == [](C3_State) /\ [][C3_Step]_vars

\* the reply of a dropped request was discarded, the other request then got
\* its own reply
C3_Witness ==
    /\ idOf = <<1, 2>>
    /\ fut[1] = "Dropped"
    /\ sink[1] = "gone"
    /\ onflight = {}
    /\ Len(dispatched) = 2
    /\ dispatched[1].req = 1
    /\ out[2] = OkMessage(ReplyType, <<2>>)

\* C4: request_with puts the command on the queue in the step that returns the
\* pending future; a dropped future leaves its command on the queue, and the
\* multiplexer takes the oldest command, assigns it the next ID and writes its
\* frame whatever has become of the future.
C4_State ==
    \A r \in Requests :
        fut[r] \in {"Pending", "Dropped"}
           => InQueue(r) \/ Dequeued(r) \/ (task = "finished" /\ sink[r] = "closed")

C4_Step ==
    /\ \A r \in Requests :
          (fut[r] = "none" /\ fut'[r] = "Pending") => commands' = Append(commands, r)
    /\ \A r \in Requests :
          (InQueue(r) /\ fut'[r] = "Dropped" /\ fut[r] # "Dropped") => commands' = commands
    /\ (task = "running" /\ task' = "running" /\ commands # << >> /\ Len(commands') < Len(commands))
          => LET r == Head(commands)
             IN /\ commands' = Tail(commands)
                /\ idOf'[r] = next_id + 1
                /\ \/ /\ stream_out' = Append(stream_out, Encode(ReqType, next_id + 1, << >>))
                      /\ <<next_id + 1, r>> \in onflight'
                   \/ /\ r \in log'.wfail
                      /\ stream_out' = stream_out

C4_EnqueueSync == [](C4_State) /\ [][C4_Step]_vars

\* the frame of a request whose future was dropped is on the stream
C4_Witness ==
    /\ fut[1] = "Dropped"
    /\ out[1] = NoValue
    /\ Len(stream_out) >= 1
    /\ WireId(1) = idOf[1]
    /\ <<idOf[1], 1>> \in onflight

\* C5: the frames on the stream are in the order in which their commands were
\* put on the queue, and every command still queued was enqueued after them.
C5_Fifo ==
    /\ \A i \in 1..Len(stream_out) : \E r \in Requests : Written(r) /\ idOf[r] = WireId(i)
    /\ \A i, j \in 1..Len(stream_out) : i < j => ReqOfId(WireId(i)) < ReqOfId(WireId(j))
    /\ \A i \in 1..Len(stream_out), c \in 1..Len(commands) : ReqOfId(WireId(i)) < commands[c]
    /\ \A c, d \in 1..Len(commands) : c < d => commands[c] < commands[d]

\* the second request was written after the reply to the first was dispatched
\* or before: both frames are on the stream and one reply has come in
C5_Witness ==
    /\ Len(stream_out) = 2
    /\ ReqOfId(WireId(1)) = 1
    /\ ReqOfId(WireId(2)) = 2
    /\ Len(dispatched) = 1

\* C6: a frame whose ID is not in the in-flight table (or that carries no ID)
\* changes neither the table nor any waiter, and the multiplexer keeps running.
C6_Step ==
    (response_size # None /\ Len(response_buffer) >= response_size /\ response_size' = None)
       => LET d == DecodeRaw(Take(response_buffer, response_size))
          IN (~d.hasId \/ d.id \notin Keys(onflight))
                => /\ UNCHANGED <<onflight, sink, val, fut, out, dispatched, commands>>
                   /\ task' = "running"

C6_UnknownId == [][C6_Step]_vars

\* a second frame for an ID already completed was read and dropped while the
\* other request is still in flight
C6_Witness ==
    /\ task = "running"
    /\ Len(sent) = 2
    /\ sent[1] = [id |-> 1, kind |-> "Reply"]
    /\ sent[2] = [id |-> 1, kind |-> "Reply"]
    /\ stream_in = << >>
    /\ response_buffer = << >>
    /\ response_size = None
    /\ Len(dispatched) = 1
    /\ onflight = {<<2, 2>>}
    /\ sink[2] = "open"

\* a reply to request r is among the frames the server has written
Replied(r) == \E i \in 1..Len(sent) : sent[i].id = idOf[r] /\ sent[i].kind = "Reply"

\* the requests whose frame was written and that no frame has answered
Unanswered == {r \in Requests : Written(r) /\ ~Answered(r)}

\* the waiter of r was told the connection is lost (or had given up waiting)
Lost(r) == sink[r] = "gone" \/ val[r] = ErrSftp(ConnectionLost)

\* C7: once a read has returned end-of-file, every request that was in flight
\* has been completed with ConnectionLost, the in-flight table is empty and the
\* multiplexer has left its loop.
C7_HalfClose ==
    (log.eof /\ Unanswered # {})
       => /\ task # "running"
          /\ onflight = {}
          /\ \A r \in Unanswered : Lost(r)

\* C8, as stated: after any error of a read or of a write the multiplexer has
\* left its loop and nothing is in flight.
C8_AsStated ==
    (log.wfail # {} \/ log.rderr # {}) => task # "running" /\ onflight = {}

\* C8, amended: a read error of a kind other than WouldBlock, TimedOut,
\* WriteZero, Interrupted and OutOfMemory fails every in-flight request with
\* ConnectionLost and ends the multiplexer; a read error of one of these five
\* kinds changes nothing; an error of encoding or writing a request fails that
\* request alone with the error and the multiplexer goes on; once the
\* multiplexer has left its loop a new request is not enqueued and its future
\* holds an error.
C8_State ==
    /\ "fatal" \in log.rderr => task # "running" /\ onflight = {} /\ \A r \in Unanswered : Lost(r)
    /\ \A r \in log.wfail :
          /\ \A p \in onflight : p[2] # r
          /\ sink[r] \in {"sent", "gone"}
          /\ sink[r] = "sent" => val[r] \in {ErrWireFormat, ErrIo("write")}

C8_Step ==
    /\ \A kind \in {"ConnectionReset", "BrokenPipe"} :
          PollReadError(kind)
             => /\ task' = "closing"
                /\ rx_closed'
                /\ onflight' = {}
                /\ \A p \in onflight :
                      \/ sink'[p[2]] = "gone"
                      \/ sink'[p[2]] = "sent" /\ val'[p[2]] = ErrSftp(ConnectionLost)
    /\ \A kind \in {"WouldBlock", "TimedOut", "WriteZero", "Interrupted", "OutOfMemory"} :
          PollReadError(kind)
             => /\ task' = "running"
                /\ UNCHANGED <<onflight, next_id, commands, rx_closed, sink, val>>
    /\ \A w \in {"Encode", "Io"} :
          RecvRequest(w)
             => /\ task' = "running"
                /\ UNCHANGED <<onflight, rx_closed, stream_out>>
                /\ \A q \in Requests \ {Head(commands)} : sink'[q] = sink[q] /\ val'[q] = val[q]
    /\ (task # "running" /\ nreq' = nreq + 1)
          => /\ fut'[nreq'] = "Error"
             /\ val'[nreq'] \in {ErrSftp(Failure), ErrIo("BrokenPipe")}
             /\ UNCHANGED <<commands, sink>>

\* C8, amended: the state and the step properties above together
C8_StreamError == [](C8_State) /\ [][C8_Step]_vars

\* a fatal read error failed the request in flight with ConnectionLost, and the
\* request made afterwards failed at once
C8_Witness ==
    /\ "fatal" \in log.rderr
    /\ log.wfail = {}
    /\ ~log.eof
    /\ log.exit = "error"
    /\ idOf[1] = 1
    /\ out[1] = ErrSftp(ConnectionLost)
    /\ fut[2] = "Polled"
    /\ sink[2] = "none"
    /\ out[2] = ErrSftp(Failure)

\* C9: the multiplexer leaves its loop on a closed and drained command queue
\* only when nothing is in flight, and while a sender of the command queue
\* exists it leaves its loop only after a read has returned end-of-file or an
\* error.
C9_Exit ==
    /\ log.exit = "closed" => NoSenders /\ Unanswered = {}
    /\ task # "running" => NoSenders \/ log.eof \/ log.rderr # {}

\* C10: a request enqueued before stop() whose frame was written and answered
\* by the server, over a stream that neither ended nor failed, holds the reply
\* of the server for its future once stop() has returned: the future awaited
\* after stop() returns that reply.
C10_StopDrains ==
    \A r \in Requests :
        (/\ via[r] \in log.stopped
         /\ Enqueued(r)
         /\ fut[r] = "Pending"
         /\ r \notin log.wfail
         /\ Replied(r)
         /\ ~log.eof
         /\ log.rderr = {})
           => sink[r] = "sent" /\ val[r].tag = "Ok"

\* the handles other than h that hold the Arc of the JoinHandle
OtherHolders(h) == {g \in Handles \ {h} : request_processor[g]}

\* C11: stop() on a handle that holds no JoinHandle (already stopped) or that
\* shares it with another handle gives a future that is ready at once; stop()
\* on the only holder gives a future that is ready only once the multiplexer
\* task has finished; a stop future dropped while it waits puts the JoinHandle
\* back into its handle, so that the next stop() on that handle waits again.
C11_State ==
    /\ \A h \in log.stopped : task = "finished"
    /\ \A h \in Handles : stopping[h] = "join" => ~request_processor[h] /\ OtherHolders(h) = {}
    /\ \A h \in Handles : stopping[h] # "none" => alive[h] /\ IsStopped(h)

C11_Step ==
    \A h \in Handles :
       /\ (stopping[h] = "none" /\ stopping'[h] = "idle")
             => ~request_processor[h] \/ OtherHolders(h) # {}
       /\ (stopping[h] = "none" /\ stopping'[h] = "join")
             => request_processor[h] /\ OtherHolders(h) = {}
       /\ (stopping[h] = "join" /\ stopping'[h] = "none")
             => \/ task = "finished" /\ h \in log'.stopped /\ ~request_processor'[h]
                \/ h \notin log'.stopped /\ request_processor'[h] /\ OtherHolders(h)' = {}
       /\ (stopping[h] = "idle" /\ stopping'[h] = "none")
             => UNCHANGED <<request_processor, log, task>>

C11_Stop == [](C11_State) /\ [][C11_Step]_vars

\* stop() on the last handle was dropped while the task ran, called again and
\* awaited to the end, after the other handle had been stopped at once
C11_Witness ==
    /\ alive = <<TRUE, TRUE>>
    /\ log.stopped = {1}
    /\ stopping = <<"none", "none">>
    /\ task = "finished"
    /\ IsStopped(2)
    /\ \E r \in Requests : via[r] = 2 /\ out[r].tag = "Ok"

\* C12: stop() leaves its handle stopped for good, whatever becomes of the stop
\* future; a request made through a stopped handle gets a future holding
\* Io(BrokenPipe), puts nothing on the queue and takes no ID; a request made
\* through another handle that was not stopped is put on the queue while the
\* multiplexer runs.
C12_Step ==
    /\ \A h \in Handles :
          (alive[h] /\ ((stopping[h] = "none" /\ stopping'[h] # "none") \/ IsStopped(h)))
             => IsStopped(h)'
    /\ \A h \in Handles :
          (nreq' = nreq + 1 /\ via'[nreq'] = h)
             => IF IsStopped(h)
                THEN /\ fut'[nreq'] = "Error"
                     /\ val'[nreq'] = ErrIo("BrokenPipe")
                     /\ UNCHANGED <<commands, next_id, onflight, sink, idOf, stream_out>>
                ELSE ~ChannelClosed
                        => /\ fut'[nreq'] = "Pending"
                           /\ commands' = Append(commands, nreq')

C12_Stopped == [][C12_Step]_vars

\* a request through the stopped handle 1 failed with BrokenPipe and took no
\* ID; the request made afterwards through handle 2 was answered
C12_Witness ==
    /\ alive = <<TRUE, TRUE>>
    /\ IsStopped(1)
    /\ ~IsStopped(2)
    /\ via = <<1, 2>>
    /\ out[1] = ErrIo("BrokenPipe")
    /\ idOf = <<0, 1>>
    /\ out[2].tag = "Ok"

\* the frame poll_next is about to hand to run, decoded
Incoming == DecodeRaw(Take(response_buffer, response_size))

\* poll_next hands a frame to run in this step
Emits == response_size # None /\ Len(response_buffer) >= response_size /\ response_size' = None

\* C13: a request whose frame cannot be encoded or written gets the error on
\* its own sink and is not put in the in-flight table; after that, and after a
\* reply that fails to decode, the multiplexer goes on: it leaves its loop only
\* on a closed and drained queue, the next command is written with the next ID
\* and put in the table, and a reply is handed to the waiter of its ID.
C13_State ==
    /\ \A r \in log.wfail :
          /\ \A p \in onflight : p[2] # r
          /\ ~Answered(r)
          /\ sink[r] \in {"sent", "gone"}
          /\ sink[r] = "sent" => val[r] \in {ErrWireFormat, ErrIo("write")}
    /\ task # "running" => log.exit = "closed" /\ NoSenders

C13_Step ==
    /\ \A r \in Requests :
          (r \in log'.wfail /\ r \notin log.wfail)
             => /\ task' = "running"
                /\ ~rx_closed'
                /\ UNCHANGED <<onflight, stream_out>>
                /\ \A q \in Requests \ {r} : sink'[q] = sink[q] /\ val'[q] = val[q]
    /\ (Emits /\ Incoming.hasId /\ Incoming.id \in Keys(onflight))
          => LET r == ReqOfId(Incoming.id)
             IN /\ task' = "running"
                /\ ~rx_closed'
                /\ onflight' = onflight \ {<<Incoming.id, r>>}
                /\ fut[r] # "Dropped"
                      => /\ sink'[r] = "sent"
                         /\ val'[r] = IF Incoming.ok
                                      THEN OkMessage(Incoming.type, Incoming.body)
                                      ELSE ErrWireFormat
    /\ ((log.wfail # {} \/ \E i \in 1..Len(dispatched) : ~dispatched[i].ok)
           /\ Len(stream_out') > Len(stream_out))
          => /\ stream_out' = Append(stream_out, Encode(ReqType, next_id + 1, << >>))
             /\ onflight' = onflight \cup {<<next_id + 1, Head(commands)>>}

C13_NoPoison == [](C13_State) /\ [][C13_Step]_vars

\* the first request could not be written and got the error; the second was
\* then written with ID 2 and answered
C13_Witness ==
    /\ log.wfail = {1}
    /\ out[1] = ErrIo("write")
    /\ idOf = <<1, 2>>
    /\ Len(stream_out) = 1
    /\ out[2] = OkMessage(ReplyType, <<1>>)
    /\ task = "running"

\* the handshake failed on an answer of the server that is not a Version 3
Refused == handshake.phase = "failed" /\ handshake.reply # << >>

\* C14: a request frame is on the stream only after the Init frame of version
\* 3 without extensions was written; the multiplexer is spawned and the client
\* exists only when the server answered with a Version of version 3; on any
\* other answer with_channel fails with BadMessage and nothing was spawned.
C14_Handshake ==
    /\ (stream_out # << >> \/ handshake.phase \in {"wait", "established"})
          => handshake.init = U32(5) \o <<InitType>> \o U32(3)
    /\ (task # "unspawned" \/ \E h \in Handles : alive[h])
          => /\ Decode(handshake.reply) = [kind |-> "Version", version |-> 3]
             /\ handshake.err = NoValue
    /\ Refused => /\ handshake.err = ErrSftp(BadMessage)
                  /\ task = "unspawned"
                  /\ \A h \in Handles : ~alive[h]

\* C15: for a request that expects a reply V other than a status, a reply V
\* gives its payload, a status other than Ok gives that status as the error, a
\* status Ok gives BadMessage and any other message gives BadMessage; for a
\* request that expects a status, Ok gives success, another status gives that
\* status as the error and any other message gives BadMessage.
C15_Narrowing ==
    (narrow.done /\ narrow.method \in RequestKinds)
       => LET expected == ReplyOf(narrow.method)
              msg == narrow.msg
          IN IF expected = "Unit"
             THEN /\ (msg.variant = "Status" /\ msg.code = StatusOk) => narrow.result = OkPayload(<< >>)
                  /\ (msg.variant = "Status" /\ msg.code # StatusOk) => narrow.result = ErrSftp(msg.code)
                  /\ msg.variant # "Status" => narrow.result = ErrSftp(BadMessage)
             ELSE /\ msg.variant = expected => narrow.result = OkPayload(msg.payload)
                  /\ (msg.variant = "Status" /\ msg.code # StatusOk) => narrow.result = ErrSftp(msg.code)
                  /\ (msg.variant = "Status" /\ msg.code = StatusOk) => narrow.result = ErrSftp(BadMessage)
                  /\ msg.variant \notin {expected, "Status"} => narrow.result = ErrSftp(BadMessage)

\* C16: SftpClient::read answered with a Data reply returns the bytes of that
\* reply; answered with a status other than Ok it returns that status as the
\* error.
C16_Read ==
    (narrow.done /\ narrow.method = "SftpClient::read")
       => /\ narrow.msg.variant = "Data" => narrow.result = OkPayload(narrow.msg.payload)
          /\ (narrow.msg.variant = "Status" /\ narrow.msg.code # StatusOk)
                => narrow.result = ErrSftp(narrow.msg.code)


\* the entries of the batches that the ReadDir requests up to the i-th returned, in order
RECURSIVE Batches(_)
Batches(i) ==
    IF i = 0 THEN << >>
    ELSE IF ops[i].op = "ReadDir" /\ ops[i].res.tag = "Ok" THEN Batches(i - 1) \o ops[i].res.body
    ELSE Batches(i - 1)

\* the value is an Err(_)
IsErr(v) == v.tag \in {"Sftp", "WireFormat", "Io"}

\* the Close requests made so far
Closes == {i \in 1..Len(ops) : ops[i].op = "Close"}

C17_WitnessError ==
    /\ composite.pc = "done"
    /\ Len(ops) >= 3
    /\ ops[Len(ops) - 1].res = ErrSftp(Failure)
    /\ ops[Len(ops)].op = "Close"
    /\ IsErr(ops[Len(ops)].res)
    /\ composite.result = ErrSftp(Failure)


\* the requests that the cursor f made and that have no reply yet
PendingOf(f) == {i \in 1..Len(ops) : ops[i].by = f /\ ops[i].state = "sent"}

\* C18: at any instant a File cursor that was not dropped has at most one
\* request written and not yet answered, whatever calls were made on it.
C18_OnePending ==
    \A f \in FileIds : file[f].st = "live" => Cardinality(PendingOf(f)) <= 1


\* the one remote handle of the files is closed at most once
C19_State == Cardinality(Closes) <= 1

\* a step that makes a Close request is taken when no other File holds the handle
C19_Step ==
    (Len(ops') > Len(ops) /\ ops'[Len(ops')].op = "Close")
        => \A g \in FileIds \ {ops'[Len(ops')].by} : file[g].handle = 0

\* C19: over any calls of close, poll_shutdown and drop on the clones of a
\* File, the Close for their handle is requested at most once, and only by a
\* step taken when no other clone holds the handle.
C19_SharedClose == [](C19_State) /\ [][C19_Step]_vars

\* C20: File::close sends at most one Close for the handle, however often its
\* future is dropped and close is called again, and a close that sent a Close
\* returns Ok only when that Close was acknowledged.
C20_CancelSafe ==
    /\ Cardinality({i \in Closes : ops[i].via = "close"}) <= 1
    /\ \A f \in FileIds :
         (file[f].closing.ready /\ file[f].ret.tag = "Ok" /\ file[f].closing.op # 0)
            => \A i \in Closes : (ops[i].by = f /\ ops[i].via = "close") => ops[i].res.tag = "Ok"

\* the File was closed: it has no handle and its client was stopped
ClosedFile(f) == file[f].st = "live" /\ file[f].handle = 0 /\ file[f].client = "stopped"

\* a close() that resolved with Ok leaves the File closed (is_closed() is true)
C21_State ==
    \A f \in FileIds :
        (file[f].st = "live" /\ file[f].closing.ready /\ file[f].ret.tag = "Ok") => ClosedFile(f)

\* a closed File stays closed until it is dropped and makes no request; a
\* close() on it gives a future that is ready at once, and that future gives Ok
C21_Step ==
    \A f \in FileIds :
        (ClosedFile(f) /\ file'[f].st = "live") =>
            /\ ClosedFile(f)'
            /\ Len(ops') > Len(ops) => ops'[Len(ops')].by # f
            /\ (file[f].closing.state = "none" /\ file'[f].closing.state # "none")
                  => file'[f].closing.state = "Closed"
            /\ (~file[f].closing.ready /\ file'[f].closing.ready)
                  => file'[f].ret = OkPayload(<< >>)

\* C21: once a close() on a File has resolved with Ok the File is closed, and
\* every later close() on it resolves at once with Ok and makes no request.
C21_Idempotent == [](C21_State) /\ [][C21_Step]_vars

\* a close sent Close and resolved with Ok, and a later close on the same File
\* resolved with Ok without a request
C21_Witness ==
    \E f \in FileIds :
        /\ file[f].closing.ready
        /\ file[f].closing.op = 0
        /\ file[f].ret = OkPayload(<< >>)
        /\ \E i \in Closes : ops[i].by = f /\ ops[i].via = "close" /\ ops[i].res.tag = "Ok"

\* the request that a step has added
NewOp == ops'[Len(ops')]

\* poll_read(buf) with n = buf.remaining() on a File with a handle:
\* with no pending operation it makes one Read at the offset of the cursor for
\* min(n, 32768) bytes and keeps it as the pending operation; while that Read
\* has no reply it makes no request; when the Read was answered with Data of
\* one byte or more, the bytes go into buf, the offset grows by their number
\* and the pending operation is cleared
C22_Step ==
    \A n \in BufSizes :
        PollRead(1, n) =>
            LET me == file[1]
                p == me.pending
            IN /\ (p.kind = "None" /\ me.handle # 0) =>
                      /\ Len(ops') = Len(ops) + 1
                      /\ NewOp.op = "Read" /\ NewOp.by = 1 /\ NewOp.state = "sent"
                      /\ NewOp.offset = me.offset
                      /\ NewOp.length = Min(n, MaxChunk)
                      /\ file'[1].pending = [kind |-> "Read", op |-> Len(ops'), arg |-> 0]
                      /\ file'[1].offset = me.offset
               /\ (p.kind = "Read" /\ ops[p.op].state = "sent") =>
                      /\ ops' = ops
                      /\ file'[1].pending = p
                      /\ file'[1].offset = me.offset
                      /\ file'[1].ret = RetPending
               /\ (p.kind = "Read" /\ ops[p.op].state = "answered"
                      /\ ops[p.op].res.tag = "Ok" /\ ops[p.op].res.body # << >>) =>
                      /\ ops' = ops
                      /\ file'[1].ret = OkPayload(ops[p.op].res.body)
                      /\ file'[1].offset = me.offset + Len(ops[p.op].res.body)
                      /\ file'[1].pending = NoPending

\* C22: every poll_read on a File starts one Read at the cursor offset for
\* min(buf.remaining(), 32768) bytes when nothing is pending, makes no request
\* while the Read is pending, and on a Data reply of n > 0 bytes copies the n
\* bytes into buf, advances the offset by n and clears the pending operation.
C22_PollRead == [][C22_Step]_vars

\* poll_read sees the reply to its Read: Status(Eof) gives Ok with no byte,
\* another error status gives an io error; the offset stays in both cases,
\* the pending operation is cleared and no request is made
C23_Step ==
    \A n \in BufSizes :
        PollRead(1, n) =>
            LET me == file[1]
                p == me.pending
                res == ops[p.op].res
            IN (p.kind = "Read" /\ ops[p.op].state = "answered" /\ res.tag = "Sftp") =>
                  /\ IF res.code = Eof
                     THEN file'[1].ret = OkPayload(<< >>)
                     ELSE file'[1].ret.tag = "Io" /\ file'[1].ret = IntoIo(res)
                  /\ file'[1].offset = me.offset
                  /\ file'[1].pending = NoPending
                  /\ ops' = ops

C23_WitnessError ==
    /\ Len(ops) = 1
    /\ ops[1].op = "Read"
    /\ ops[1].res = ErrSftp(Failure)
    /\ file[1].call = "poll_read"
    /\ file[1].ret = ErrIo("Other")

\* ceil(n / c)
Ceil(n, c) == (n + c - 1) \div c

\* the Write requests of the caller's loop: the k-th carries the bytes from
\* (k - 1) * 32768 on, at most 32768 of them, at the offset where the loop
\* began plus (k - 1) * 32768, and is made after the one before was
\* acknowledged; there are no more than ceil(N / 32768) of them, and exactly
\* that many when all N bytes were accepted, the offset being then o + N
C24_Chunking ==
    LET N == write_all.total
        o == write_all.start
    IN /\ Len(ops) <= Ceil(N, MaxChunk)
       /\ \A k \in 1..Len(ops) :
            /\ ops[k].op = "Write"
            /\ ops[k].offset = o + (k - 1) * MaxChunk
            /\ ops[k].length = Min(N - (k - 1) * MaxChunk, MaxChunk)
            /\ ops[k].length >= 1 /\ ops[k].length <= MaxChunk
            /\ k < Len(ops) => ops[k].res = OkPayload(<< >>)
       /\ Accepted <= N
       /\ Accepted = N => Len(ops) = Ceil(N, MaxChunk) /\ file[1].offset = o + N

\* 48 KiB written at offset 0: two Writes, of 32768 bytes at 0 and of 16384
\* bytes at 32768, and the offset is 49152
C24_Witness ==
    /\ write_all = [total |-> 49152, start |-> 0]
    /\ Len(ops) = 2
    /\ ops[1].offset = 0 /\ ops[1].length = 32768
    /\ ops[2].offset = 32768 /\ ops[2].length = 16384
    /\ file[1].offset = 49152
    /\ file[1].pending = NoPending

\* poll_read is called while a Write is pending and acknowledged: the offset
\* has grown by the length of the Write when the call returns, and the Read
\* that the call makes, if any, is at the new offset
C25_Step ==
    \A n \in BufSizes :
        PollRead(1, n) =>
            LET p == file[1].pending IN
            (p.kind = "Write" /\ ops[p.op].state = "answered" /\ ops[p.op].res.tag = "Ok") =>
                /\ file'[1].offset = file[1].offset + ops[p.op].length
                /\ Len(ops') > Len(ops) => NewOp.offset = file[1].offset + ops[p.op].length

\* C25: an acknowledged Write advances the offset by its length also when its
\* completion is seen by poll_read, and the next request is at the new offset.
C25_WriteOffset == [][C25_Step]_vars

\* ------------------------------------------------------------------------
\* C26: seek on a File. Start(n) sets the offset to n and issues no request;
\* Current(i) sets it to offset + i, or fails with InvalidData and leaves the
\* offset when the sum is negative or above u64::MAX; End(i) issues exactly
\* one FStat and, when poll_complete sees its reply, sets the offset to
\* size + i, fails with Unsupported when the reply has no size and with
\* InvalidData when size + i is negative or above u64::MAX, the offset being
\* unchanged on every failure.
\* ------------------------------------------------------------------------
InU64(n) == 0 <= n /\ n <= U64Max

C26_StartStep ==
    \A pos \in SeekPositions :
        (StartSeek(1, pos) /\ file[1].pending.kind = "None") =>
            LET me == file[1] IN
            CASE pos.from = "Start" ->
                    /\ ops' = ops
                    /\ file'[1].offset = pos.n
                    /\ file'[1].ret = OkPayload(<< >>)
                    /\ file'[1].pending = NoPending
              [] pos.from = "Current" ->
                    /\ ops' = ops
                    /\ file'[1].pending = NoPending
                    /\ IF InU64(me.offset + pos.n)
                       THEN file'[1].offset = me.offset + pos.n /\ file'[1].ret = OkPayload(<< >>)
                       ELSE file'[1].offset = me.offset /\ file'[1].ret = ErrIo("InvalidData")
              [] OTHER ->
                    /\ file'[1].offset = me.offset
                    /\ file'[1].ret = OkPayload(<< >>)
                    /\ file'[1].pending.kind = "Seek"
                    /\ me.handle # 0 =>
                          /\ Len(ops') = Len(ops) + 1
                          /\ SubSeq(ops', 1, Len(ops)) = ops
                          /\ NewOp.op = "FStat"
                          /\ file'[1].pending.op = Len(ops')

C26_CompleteStep ==
    LET me == file[1]
        p == me.pending
    IN (PollComplete(1) /\ p.kind = "Seek" /\ p.op # 0 /\ ops[p.op].state = "answered") =>
          LET res == ops[p.op].res IN
          /\ ops' = ops
          /\ file'[1].pending = NoPending
          /\ IF res.tag = "Ok" /\ res.body # << >> /\ InU64(res.body[1] + p.arg)
             THEN /\ file'[1].offset = res.body[1] + p.arg
                  /\ file'[1].ret = OkNum(res.body[1] + p.arg)
             ELSE /\ file'[1].offset = me.offset
                  /\ file'[1].ret.tag = "Io"
                  /\ (res.tag = "Ok" /\ res.body = << >>) => file'[1].ret = ErrIo("Unsupported")
                  /\ (res.tag = "Ok" /\ res.body # << >>) => file'[1].ret = ErrIo("InvalidData")

C26_Seek == [][C26_StartStep /\ C26_CompleteStep]_vars

\* poll_complete has returned Ok(1) for SeekFrom::End(-1) on a file of size 2
C26_Witness ==
    /\ file[1].call = "poll_complete"
    /\ file[1].ret = OkNum(1)
    /\ file[1].offset = 1
    /\ \E i \in 1..Len(ops) :
          /\ ops[i].via = "start_seek"
          /\ ops[i].op = "FStat"
          /\ ops[i].res = OkPayload(<<2>>)

\* poll_complete has returned InvalidData for SeekFrom::End(1) on a file of
\* size u64::MAX, the offset still where SeekFrom::Start(2) had put it
C26_WitnessOverflow ==
    /\ file[1].call = "poll_complete"
    /\ file[1].ret = ErrIo("InvalidData")
    /\ file[1].offset = 2
    /\ \E i \in 1..Len(ops) :
          /\ ops[i].via = "start_seek"
          /\ ops[i].op = "FStat"
          /\ ops[i].res = OkPayload(<<U64Max>>)

\* ------------------------------------------------------------------------
\* C27: while a Read, Write, Seek or Close is pending on a File, start_seek
\* fails with WouldBlock, changes neither the offset nor the pending
\* operation and issues no request; the pending operation is left for a
\* later poll to complete.
\* ------------------------------------------------------------------------
C27_Step ==
    \A pos \in SeekPositions :
        (StartSeek(1, pos) /\ file[1].pending.kind \in {"Read", "Write", "Seek", "Close"}) =>
            /\ file'[1].ret = ErrIo("WouldBlock")
            /\ file'[1].offset = file[1].offset
            /\ file'[1].pending = file[1].pending
            /\ ops' = ops

C27_SeekWouldBlock == [][C27_Step]_vars

\* start_seek has returned WouldBlock over a pending Read
C27_Witness ==
    /\ file[1].call = "start_seek"
    /\ file[1].ret = ErrIo("WouldBlock")
    /\ file[1].pending.kind = "Read"

\* the same over a pending Write, Seek and Close
C27_WitnessWrite ==
    /\ file[1].call = "start_seek"
    /\ file[1].ret = ErrIo("WouldBlock")
    /\ file[1].pending.kind = "Write"

C27_WitnessSeek ==
    /\ file[1].call = "start_seek"
    /\ file[1].ret = ErrIo("WouldBlock")
    /\ file[1].pending.kind = "Seek"

C27_WitnessClose ==
    /\ file[1].call = "start_seek"
    /\ file[1].ret = ErrIo("WouldBlock")
    /\ file[1].pending.kind = "Close"

\* ------------------------------------------------------------------------
\* C28: directory iteration. For ReadDir replies B1, ..., Bk that are not
\* empty, followed by Status(Eof), the Dir stream yields the entries of B1,
\* then of B2, ..., then of Bk, each batch in the server's order, and then
\* the end of the sequence; a ReadDir is issued only when the local buffer is
\* empty; a batch [] with Ok yields a single UnexpectedEof error item.
\* ------------------------------------------------------------------------
\* the ReadDir replies that poll_next has taken
Taken == IF dir.pending # 0 THEN dir.pending - 1 ELSE Len(ops)

\* the entries that the stream has yielded, and the number of them
Yielded == SelectSeq(dir.yielded, LAMBDA y : y.tag = "Item")
Entries == [j \in 1..Len(Yielded) |-> Yielded[j].code]

\* the entries still in the buffer, in the order they will be yielded
Buffered ==
    [j \in 1..Len(dir.buffer.entries) |-> dir.buffer.entries[Len(dir.buffer.entries) + 1 - j]]

\* the reply is a batch with entries
IsBatch(res) == res.tag = "Ok" /\ res.body # << >>

\* the replies taken that ended the iteration
Enders == {i \in 1..Taken : ~IsBatch(ops[i].res)}

C28_State ==
    /\ Entries \o Buffered = Batches(Taken)
    /\ \A j \in 1..Len(Yielded) : dir.yielded[j].tag = "Item"
    /\ \A i \in Enders :
          LET k == Len(Yielded) IN
          /\ Taken = i
          /\ dir.buffer = NoBuffer
          /\ Len(dir.yielded) > k
          /\ ops[i].res = ErrSftp(Eof) => dir.yielded[k + 1] = EndOfStream
          /\ ops[i].res = OkPayload(<< >>) => dir.yielded[k + 1] = ErrIo("UnexpectedEof")
          /\ \A j \in (k + 2)..Len(dir.yielded) : dir.yielded[j] = EndOfStream

C28_Step ==
    Len(ops') > Len(ops) =>
        /\ dir.buffer.some
        /\ dir.buffer.entries = << >>
        /\ ops'[Len(ops')].op = "ReadDir"

C28_Iteration == [](C28_State) /\ [][C28_Step]_vars

\* the batches [1, 11] and [2, 12], then Eof: four entries, then the end
C28_Witness ==
    /\ dir.yielded = <<Item(1), Item(11), Item(2), Item(12), EndOfStream>>
    /\ Len(ops) = 3
    /\ ops[3].res = ErrSftp(Eof)

\* the batch [1], then a batch [] with Ok: one UnexpectedEof item, then the end
C28_WitnessEmpty ==
    /\ dir.yielded = <<Item(1), ErrIo("UnexpectedEof"), EndOfStream>>
    /\ ops[2].res = OkPayload(<< >>)

\* ------------------------------------------------------------------------
\* C29: the entries of a Dir are finite and cannot be restarted. Once the
\* stream has yielded the end of the sequence, or an error item, every later
\* poll returns the end of the sequence and the cursor issues no further
\* ReadDir.
\* ------------------------------------------------------------------------
Terminated == \E j \in 1..Len(dir.yielded) : dir.yielded[j].tag # "Item"

C29_Step ==
    Terminated =>
        /\ PollNext =>
              /\ dir'.ret = EndOfStream
              /\ dir'.yielded = Append(dir.yielded, EndOfStream)
              /\ ops' = ops
        /\ Len(ops') > Len(ops) => ops'[Len(ops')].op # "ReadDir"

C29_Finite == [][C29_Step]_vars

\* after Status(Eof) the stream has returned the end of the sequence twice
C29_Witness ==
    /\ dir.yielded = <<Item(1), EndOfStream, EndOfStream>>
    /\ ops[2].res = ErrSftp(Eof)
    /\ dir.call = "poll_next"

\* after an error item the stream has returned the end of the sequence
C29_WitnessError ==
    /\ dir.yielded = <<ErrSftp(Failure), EndOfStream>>
    /\ dir.call = "poll_next"

\* ------------------------------------------------------------------------
\* C30: close while iterating. After close() has been called on a Dir whose
\* entry stream had not ended, the next result of the stream is a BrokenPipe
\* error, and the one after that the end of the sequence.
\* ------------------------------------------------------------------------
\* close() has been called on the Dir while it had its handle
CloseCalled == \E i \in 1..Len(ops) : ops[i].via = "close"

C30_Step ==
    /\ (PollNext /\ CloseCalled /\ ~Terminated /\ dir'.ret # RetPending)
        => dir'.ret = ErrIo("BrokenPipe")
    /\ (PollNext /\ dir.ret = ErrIo("BrokenPipe")) => dir'.ret = EndOfStream

C30_CloseWhileIterating == [][C30_Step]_vars

\* the same, for the close of dir/mod.rs called when the buffer is empty and
\* no ReadDir is pending, and for no other close
C30_StepIdle ==
    /\ (PollNext /\ CloseCalled /\ ~Terminated /\ dir'.ret # RetPending
          /\ dir.build = "mod.rs" /\ dir.buffer.entries = << >> /\ dir.pending = 0)
        => dir'.ret = ErrIo("BrokenPipe")
    /\ (PollNext /\ dir.ret = ErrIo("BrokenPipe")) => dir'.ret = EndOfStream

C30_OnlyWhenIdle == [][C30_StepIdle]_vars

\* a poll after close() has returned BrokenPipe
C30_BrokenPipeSeen ==
    \E j \in 1..Len(dir.yielded) : dir.yielded[j] = ErrIo("BrokenPipe")

\* ------------------------------------------------------------------------
\* C31: a Dir cursor emits the Close request for its handle exactly once over
\* its lifetime, for any sequence of close() calls, each awaited or dropped
\* before completion, followed by the drop of the cursor.
\* ------------------------------------------------------------------------
\* the Close requests that the Dir has made
DirCloses == {i \in 1..Len(ops) : ops[i].by = 0 /\ ops[i].op = "Close"}

C31_CloseOnce ==
    /\ Cardinality(DirCloses) <= 1
    /\ dir.st = "dropped" => Cardinality(DirCloses) = 1

\* the same for a Dir with the close of dir/mod.rs only
C31_CloseOnceInline ==
    dir.build = "mod.rs" => C31_CloseOnce

\* the Dir was dropped after a close() that was awaited to its end
C31_DroppedAfterClose ==
    /\ dir.st = "dropped"
    /\ \E i \in DirCloses : ops[i].via = "close" /\ ops[i].state = "answered"

\* ------------------------------------------------------------------------
\* C32: no call on a File panics, whatever the server sends and however the
\* caller uses the cursor: poll_read copies no more reply bytes into the
\* caller's buffer than it has room for.
\* ------------------------------------------------------------------------
C32_NoPanic == \A f \in FileIds : file[f].ret # Panic

\* away from the end of u64, where `self.offset += len` overflows, the only
\* panic of poll_read is the copy of a reply longer than the buffer
C32_PanicOnlyOversize ==
    [][(file'[1].ret = Panic /\ file'[1].call = "poll_read" /\ file[1].ret # Panic
          /\ file[1].offset < U64Max - 2)
        => \E n \in BufSizes :
              /\ PollRead(1, n)
              /\ file[1].pending.kind = "Read"
              /\ Len(ops[file[1].pending.op].res.body) > n]_vars

\* ------------------------------------------------------------------------
\* C33..C35: the codec of Attrs and of the other values
\* ------------------------------------------------------------------------

\* the bytes of the fields of an Attrs that are present, in the order size,
\* owner, permissions, times
FieldBytes(a) ==
    (IF IsSome(a.size) THEN U64(a.size[1]) ELSE << >>)
    \o (IF IsSome(a.owner) THEN U32(a.owner[1]) \o U32(a.owner[2]) ELSE << >>)
    \o (IF IsSome(a.perms) THEN U32(a.perms[1]) ELSE << >>)
    \o (IF IsSome(a.time) THEN U32(a.time[1]) \o U32(a.time[2]) ELSE << >>)

EmptyAttrs == [size |-> << >>, owner |-> << >>, perms |-> << >>, time |-> << >>]

\* an Attrs was encoded
AttrsEncoded == codec.kind = "Attrs" /\ codec.pc \in {"encoded", "altered", "decoded"}

\* C33: in the encoding of an Attrs the flags word has exactly the bits of
\* the fields that are present (0x1 size, 0x2 owner, 0x4 permissions, 0x8
\* times), only the present fields follow it, in that order, decoding the
\* encoding gives the Attrs back, and the empty Attrs is 00 00 00 00.
C33_AttrsCodec ==
    AttrsEncoded =>
        /\ Len(codec.golden) >= U32Len
        /\ HasBit(GetU32(codec.golden), 1) <=> IsSome(codec.value.size)
        /\ HasBit(GetU32(codec.golden), 2) <=> IsSome(codec.value.owner)
        /\ HasBit(GetU32(codec.golden), 4) <=> IsSome(codec.value.perms)
        /\ HasBit(GetU32(codec.golden), 8) <=> IsSome(codec.value.time)
        /\ GetU32(codec.golden) < 16
        /\ Drop(codec.golden, U32Len) = FieldBytes(codec.value)
        /\ codec.value = EmptyAttrs => codec.golden = <<0, 0, 0, 0>>
        /\ (codec.pc = "decoded" /\ codec.input = "whole") =>
              /\ codec.result.ok
              /\ codec.result.val = codec.value
              /\ codec.result.rest = << >>

\* an Attrs with a size and times but no owner and no permissions came back
\* from the decoder
C33_Witness ==
    /\ AttrsEncoded
    /\ codec.pc = "decoded"
    /\ codec.input = "whole"
    /\ IsSome(codec.value.size) /\ IsSome(codec.value.time)
    /\ ~IsSome(codec.value.owner) /\ ~IsSome(codec.value.perms)
    /\ codec.result.ok

\* the empty Attrs was encoded and decoded
C33_WitnessEmpty ==
    /\ AttrsEncoded
    /\ codec.pc = "decoded"
    /\ codec.input = "whole"
    /\ codec.value = EmptyAttrs
    /\ codec.golden = <<0, 0, 0, 0>>

\* the decoder was handed an Attrs with a bit in its flags that AttrFlags
\* does not define
ForeignDecoded == codec.pc = "decoded" /\ codec.input = "foreign"

\* C34: decoding an Attrs whose flags word has a bit outside 0x0000000F
\* fails with BadMessage and yields no Attrs.
C34_BadMessage ==
    ForeignDecoded =>
        /\ ~codec.result.ok
        /\ FromDecodeError(codec.result.err) = ErrSftp(BadMessage)

\* C34, what the decoder does: no Attrs, and the custom error of the wire
\* format ("invalid attr"), which the client hands on as Error::WireFormat
C34_CustomError ==
    ForeignDecoded =>
        /\ ~codec.result.ok
        /\ codec.result.err = "Custom"
        /\ FromDecodeError(codec.result.err) = ErrWireFormat

\* an Attrs with all four fields and a foreign bit was refused
C34_Refused ==
    /\ ForeignDecoded
    /\ IsSome(codec.value.size) /\ IsSome(codec.value.owner)
    /\ IsSome(codec.value.perms) /\ IsSome(codec.value.time)
    /\ ~codec.result.ok

\* a prefix of an encoding was handed to the decoder
TruncatedDecoded == codec.pc = "decoded" /\ codec.input = "truncated"

\* C35 as stated: decoding any proper prefix of the encoding of any value
\* fails with NotEnoughData.
C35_AsStated ==
    TruncatedDecoded => ~codec.result.ok /\ codec.result.err = "NotEnoughData"

\* the first k pairs of a map
FirstPairs(m, k) == SubSeq(m, 1, k)

\* the cut falls in the last field of a value whose last field extends to
\* the end of the frame, where one of its elements ends: after the version
\* of an Init or Version or after one of its pairs, anywhere after the name
\* of an Extended
OnBoundary ==
    \/ /\ codec.kind \in {"Init", "Version"}
       /\ \E k \in 0..Len(codec.value.extensions) :
             Len(codec.bytes) = U32Len + Len(EncodePairs(FirstPairs(codec.value.extensions, k)))
    \/ /\ codec.kind = "Extended"
       /\ Len(codec.bytes) >= U32Len + Len(codec.value.request)

\* C35: decoding a proper prefix of the encoding of a value fails with
\* NotEnoughData, unless the cut falls on a boundary in a last field that
\* extends to the end of the frame: then the prefix is itself the encoding
\* of a value, and the decoder returns that value.
C35_Truncation ==
    TruncatedDecoded =>
        IF OnBoundary
        THEN /\ codec.result.ok
             /\ EncodeValue(codec.kind, codec.result.val) = codec.bytes
             /\ codec.result.val # codec.value
        ELSE ~codec.result.ok /\ codec.result.err = "NotEnoughData"

\* a Status cut inside its error message was refused
C35_Witness ==
    /\ TruncatedDecoded
    /\ codec.kind = "Status"
    /\ Len(codec.bytes) = 2 * U32Len + 1
    /\ codec.result.err = "NotEnoughData"

\* an Init with one extension, cut after its version, was decoded as an
\* Init with no extension
C35_WitnessBoundary ==
    /\ TruncatedDecoded
    /\ codec.kind = "Init"
    /\ Len(codec.value.extensions) = 1
    /\ Len(codec.bytes) = U32Len
    /\ codec.result.ok
    /\ codec.result.val.extensions = << >>

\* ------------------------------------------------------------------------
\* C36..C40: the multiplexer
\* ------------------------------------------------------------------------

\* C36: whatever the pieces in which the bytes of the server arrive, a read
\* that returns bytes never ends the stream, and a read that returns no
\* byte always does, also when part of a length prefix or of a frame is in
\* the buffer.
C36_Reassembly ==
    [][/\ (PollReadData /\ task = "running") => task' = "running" /\ log'.exit = "none"
       /\ (PollReadEof /\ task = "running") => task' # "running" /\ log'.exit = "eof"]_vars

\* C36, bytes arriving: a read that returns bytes ends the stream only when
\* it returns as many bytes as the buffer held before it
C36_FalseEofOnlyOnEqual ==
    [][(PollReadData /\ task' # "running") => ReadLen = Len(response_buffer)]_vars

\* C36, end of file: a read that returns no byte ends the stream exactly
\* when the buffer is empty
C36_EofOnlyOnEmpty ==
    [][PollReadEof => (task' # "running" <=> response_buffer = << >>)]_vars

\* C37: when a frame fails to decode and its ID can be read and is in the
\* in-flight table, the error is handed to the sink of that ID alone and the
\* entry is removed; when the ID cannot be read or is not in the table the
\* frame is discarded and the table and all sinks are unchanged; in both
\* cases the multiplexer keeps running.
C37_Step ==
    (Emits /\ ~Incoming.ok)
       => /\ task' = "running"
          /\ ~rx_closed'
          /\ UNCHANGED <<commands, next_id, stream_out>>
          /\ IF Incoming.hasId /\ Incoming.id \in Keys(onflight)
             THEN LET r == ReqOfId(Incoming.id)
                  IN /\ onflight' = onflight \ {<<Incoming.id, r>>}
                     /\ Incoming.id \notin Keys(onflight')
                     /\ sink'[r] = IF fut[r] = "Dropped" THEN "gone" ELSE "sent"
                     /\ fut[r] # "Dropped" => val'[r] = ErrWireFormat
                     /\ \A q \in Requests \ {r} : sink'[q] = sink[q] /\ val'[q] = val[q]
             ELSE UNCHANGED <<onflight, sink, val>>

C37_DecodeFailure == [][C37_Step]_vars

\* a frame of unknown type for ID 1 gave the first request the decoding
\* error while the second request stayed in flight
C37_Witness ==
    /\ task = "running"
    /\ \E i \in 1..Len(dispatched) : dispatched[i].req = 1 /\ ~dispatched[i].ok
    /\ out[1] = ErrWireFormat
    /\ onflight = {<<2, 2>>}
    /\ sink[2] = "open"

\* a frame too short to hold an ID was discarded while a request was in
\* flight
C37_WitnessDiscarded ==
    /\ task = "running"
    /\ \E i \in 1..Len(sent) : sent[i].kind = "Short"
    /\ stream_in = << >>
    /\ response_buffer = << >>
    /\ onflight = {<<1, 1>>}
    /\ dispatched = << >>

\* run awaits write_msg
Writing == task = "writing"

\* the command queue after the step is the queue before it, or that queue
\* with one command more at its end
OnlyEnqueued ==
    \/ commands' = commands
    \/ \E r \in Requests : commands' = Append(commands, r)

\* poll_next goes to the stream: it takes the size of a frame, reads, or
\* hands a frame to run
GoesToStream ==
    \/ response_size' # response_size
    \/ response_buffer' # response_buffer
    \/ Len(dispatched') > Len(dispatched)
    \/ in_loop' /\ ~in_loop

\* C38: while the write of a request has not completed nothing is read from
\* the stream, no frame is dispatched and no other command is dequeued; a
\* command handed to request_with on an open queue is enqueued at once,
\* whatever the multiplexer is doing; and poll_next goes to the stream only
\* when no write is in progress and it found the command queue empty.
C38_Step ==
    /\ Writing =>
          /\ UNCHANGED <<response_size, response_buffer, in_loop, dispatched, next_id, idOf>>
          /\ OnlyEnqueued
          /\ onflight' # onflight => task' = "running"
    /\ (nreq' = nreq + 1 /\ client_commands[1] /\ ~ChannelClosed)
          => /\ commands' = Append(commands, nreq')
             /\ fut'[nreq'] = "Pending"
    /\ (GoesToStream /\ ~in_loop) => task = "running" /\ commands = << >>
    /\ Emits => task = "running"

\* as long as the handle is there and the queue is open, request_with can
\* be called
C38_State ==
    (alive[1] /\ stopping[1] = "none" /\ nreq < MaxReq) => ENABLED RequestWith(1, "Msg")

C38_OneAtATime == [](C38_State) /\ [][C38_Step]_vars

\* the second request is being written while the reply to the first has
\* arrived and waits in the stream
C38_Witness ==
    /\ Writing
    /\ next_id = 2
    /\ onflight = {<<1, 1>>}
    /\ stream_in # << >>
    /\ \E i \in 1..Len(sent) : sent[i].id = 1
    /\ response_buffer = << >>
    /\ dispatched = << >>

\* the second request was enqueued while the first is being written
C38_WitnessEnqueued ==
    /\ Writing
    /\ next_id = 1
    /\ commands = <<2>>
    /\ fut[2] = "Pending"

\* the IDs of the frames written to the stream, in order
WrittenIds == [i \in 1..Len(stream_out) |-> WireId(i)]

\* C39: the keys of the in-flight table are distinct IDs in 1..next_id, each
\* the ID of a request whose frame was written and to which no frame was
\* dispatched; an ID is assigned to one command only, also when its frame
\* could not be written, so the IDs written increase strictly.
C39_State ==
    /\ \A p, q \in onflight : p[1] = q[1] => p = q
    /\ \A p \in onflight :
          /\ p[1] \in 1..next_id
          /\ idOf[p[2]] = p[1]
          /\ Written(p[2])
          /\ ~Answered(p[2])
    /\ \A r, q \in Requests : (Dequeued(r) /\ Dequeued(q) /\ r # q) => idOf[r] # idOf[q]
    /\ \A r \in Requests : Dequeued(r) => idOf[r] \in 1..next_id
    /\ Cardinality({r \in Requests : Dequeued(r)}) = next_id
    /\ \A i, j \in 1..Len(stream_out) : i < j => WrittenIds[i] < WrittenIds[j]

\* C39, the steps: an entry is put in the table only under a key that is not
\* in it, the ID just assigned; a request whose frame could not be written
\* takes the next ID too
C39_Step ==
    /\ \A p \in onflight' \ onflight :
          /\ p[1] \notin Keys(onflight)
          /\ p[1] = next_id + 1
          /\ next_id' = next_id + 1
          /\ Cardinality(onflight') = Cardinality(onflight) + 1
    /\ \A r \in log'.wfail \ log.wfail : idOf'[r] = next_id + 1 /\ next_id' = next_id + 1

C39_Table == [](C39_State) /\ [][C39_Step]_vars

\* the first request could not be written; the second was written with ID 2
\* and is in flight
C39_Witness ==
    /\ log.wfail = {1}
    /\ idOf = <<1, 2>>
    /\ onflight = {<<2, 2>>}
    /\ next_id = 2
    /\ Len(stream_out) = 1
    /\ WrittenIds = <<2>>
    /\ task = "running"
    /\ dispatched = << >>

\* Receiver::run has left its loop
Exited == task \in {"closing", "finished"}

\* the future of r was handed out and has not returned
Awaited(r) == fut[r] \in {"Pending", "Error"}

\* C40, what a future returns: the frame handed to it, the error of its
\* write, ConnectionLost when it was in flight at the exit, an io error when
\* its command was never taken from the queue, and an error made on the
\* spot when it was issued after the exit or on a stopped handle.
C40_State ==
    \A r \in Requests :
       fut[r] = "Polled" =>
          \/ Answered(r) /\ out[r].tag \in {"Ok", "WireFormat"}
          \/ r \in log.wfail /\ out[r] \in {ErrWireFormat, ErrIo("write")}
          \/ Written(r) /\ ~Answered(r) /\ out[r] = ErrSftp(ConnectionLost)
          \/ Enqueued(r) /\ ~Dequeued(r) /\ out[r] = ErrIo("ConnectionReset")
          \/ ~Enqueued(r) /\ out[r] \in {ErrSftp(Failure), ErrIo("BrokenPipe")}

\* C40: once the multiplexer has left its loop, every future that is awaited
\* returns.
C40_Resolves ==
    /\ [](C40_State)
    /\ \A r \in Requests : (Exited /\ Awaited(r)) ~> (fut[r] = "Polled")

\* the multiplexer has exited; the first request was in flight and its
\* future returned ConnectionLost, the second was still queued and its
\* future returned an io error
C40_Witness ==
    /\ task = "finished"
    /\ fut[1] = "Polled" /\ out[1] = ErrSftp(ConnectionLost)
    /\ fut[2] = "Polled" /\ out[2] = ErrIo("ConnectionReset")
    /\ idOf[2] = 0

\* a request issued after the exit failed at once
C40_WitnessAfterExit ==
    /\ task = "finished"
    /\ \E r \in Requests : fut[r] = "Polled" /\ sink[r] = "none" /\ out[r] = ErrSftp(Failure)

====
